---- MODULE Spec2Model ----
(***************************************************************************)
(* State-machine model of acstore's SQLite attribute container store       *)
(* (acstore/sqlite_store.py) together with the container objects it hands  *)
(* out (acstore/containers/interface.py).                                  *)
(*                                                                         *)
(* The store object, the SQLite file and the container objects the caller  *)
(* holds are the state; every public method is one action.                 *)
(***************************************************************************)
EXTENDS Integers, Sequences, FiniteSets, TLC

(***************************************************************************)
(* Program constants.                                                      *)
(***************************************************************************)
FORMAT_VERSION == 20230312

APPEND_COMPATIBLE_FORMAT_VERSION == 20221023

UPGRADE_COMPATIBLE_FORMAT_VERSION == 20221023

READ_COMPATIBLE_FORMAT_VERSION == 20221023

\* 32 * 1024 in the source; scaled down so that eviction happens within the
\* bounds of the model.
MAXIMUM_CACHED_CONTAINERS == 2

\* 50 in the source; scaled down so that the automatic flush happens within
\* the bounds of the model.  Statements about it are written in terms of
\* this name.
MAXIMUM_WRITE_CACHE_SIZE == 3

(***************************************************************************)
(* Bounds of the model.                                                    *)
(***************************************************************************)
\* Most containers of type "event" ever written as new to the file.
MaxRows == 3

\* Most containers of type "tag" ever written as new to the file.
MaxOtherRows == 2

\* Most containers of type "event" written as new in the read cache
\* scenarios, where the containers of type "tag" crowd them out of the cache.
MaxCrowdedRows == 1

\* Most updates of existing containers.
MaxUpdates == 1

\* Most containers of one type written in the version-negotiation scenarios.
MaxRowsMeta == 2

\* Most and/or combinators nested inside each other in a filter expression.
MaxDepth == 2

\* Most characters in the name of an identifier.
MaxNameLen == 2

\* Most characters in a string an identifier is copied from.
MaxStringLen == 3

\* Most writes that fail in one session.
MaxFailedWrites == 2

(***************************************************************************)
(* Runtime and storage values.  A value is tagged with its kind so that    *)
(* values of different kinds can be compared.                              *)
(***************************************************************************)
None == [k |-> "none"]

IntV(n) == [k |-> "int", n |-> n]

StrV(s) == [k |-> "str", s |-> s]

BoolV(b) == [k |-> "bool", b |-> b]

\* Text is a sequence of characters.
Digits == <<"0", "1", "2", "3", "4", "5", "6", "7", "8", "9">>

IsDigit(c) == \E i \in 1..10 : Digits[i] = c

DigitValue(c) == (CHOOSE i \in 1..10 : Digits[i] = c) - 1

\* int(text, 10) succeeds: an optional sign followed by decimal digits.
IsNumeric(text) ==
  LET body == IF Len(text) > 0 /\ text[1] = "-" THEN Tail(text) ELSE text
  IN  Len(body) > 0 /\ \A i \in 1..Len(body) : IsDigit(body[i])

RECURSIVE ParseDigits(_)
ParseDigits(text) ==
  IF text = <<>> THEN 0
  ELSE 10 * ParseDigits(SubSeq(text, 1, Len(text) - 1))
         + DigitValue(text[Len(text)])

\* int(text, 10) for a text that IsNumeric.
ParseInt(text) ==
  IF text[1] = "-" THEN 0 - ParseDigits(Tail(text)) ELSE ParseDigits(text)

\* f'{n:d}' for n >= 0.
RECURSIVE FormatInt(_)
FormatInt(n) ==
  IF n < 10 THEN <<Digits[n + 1]>>
  ELSE Append(FormatInt(n \div 10), Digits[(n % 10) + 1])

JSON == <<"j", "s", "o", "n">>

(***************************************************************************)
(* The registered container types and their schemas                        *)
(* (AttributeContainersManager, containers/manager.py).                    *)
(***************************************************************************)
\* "note" declares an attribute of a data type that SchemaHelper does not
\* have: no container of that type can be written.  The class of "bare"
\* declares no SCHEMA: GetSchema returns the empty dictionary.
ContainerTypes == {"event", "tag", "note", "bare"}

\* The types whose containers can be written.
WritableTypes == {"event", "tag"}

SCHEMA ==
  [t \in ContainerTypes |->
     IF t = "event" THEN [a |-> "int", b |-> "str"]
     ELSE IF t = "tag" THEN [flag |-> "bool"]
     ELSE IF t = "note" THEN [x |-> "complex"]
     ELSE <<>>]

\* The attribute names in lexicographic order: sorted(schema.items()).
AttributeOrder == <<"a", "b", "flag", "x">>

GetSchema(container_type) == SCHEMA[container_type]

GetContainerTypes == ContainerTypes

SortedNames(schema) ==
  SelectSeq(AttributeOrder, LAMBDA name : name \in DOMAIN schema)

\* The attribute values the caller gives the k-th container of a type it
\* writes: each container of a type differs from the one before it.
InputValues(t, k) ==
  IF t = "event"
  THEN {[a |-> IntV(k), b |-> IF k % 2 = 1 THEN StrV("x") ELSE None]}
  ELSE IF t = "tag" THEN {[flag |-> BoolV(k % 2 = 1)]}
  ELSE {[x |-> IntV(k)]}

\* The attribute values the caller gives a container before it updates it.
UpdateValues(t) ==
  IF t = "event" THEN {[a |-> IntV(0), b |-> StrV("y")]}
  ELSE IF t = "tag" THEN {[flag |-> BoolV(FALSE)]}
  ELSE {[x |-> IntV(0)]}

(***************************************************************************)
(* Filter expressions.  A Python AST node is a record; SQL text is the     *)
(* sequence of its lexemes, each a sequence of characters, which the       *)
(* blanks of the text separate.                                            *)
(***************************************************************************)
Name(id) == [node |-> "Name", id |-> id]

Constant(value) == [node |-> "Constant", value |-> value]

Compare(left, ops, comparators) ==
  [node |-> "Compare", left |-> left, ops |-> ops, comparators |-> comparators]

BoolOp(op, values) == [node |-> "BoolOp", op |-> op, values |-> values]

UnaryOp(op, operand) == [node |-> "UnaryOp", op |-> op, operand |-> operand]

BinOp(left, op, right) ==
  [node |-> "BinOp", left |-> left, op |-> op, right |-> right]

Call(func, args) == [node |-> "Call", func |-> func, args |-> args]

AND == <<"A", "N", "D">>

OR == <<"O", "R">>

EQ == <<"=">>

NE == <<"<", ">">>

Raised == [raised |-> TRUE, text |-> <<>>]

Sql(text) == [raised |-> FALSE, text |-> text]

\* str(value) of a constant that is no string.
Str(value) ==
  IF value.k = "int" THEN FormatInt(value.n)
  ELSE IF value.k = "bool"
  THEN IF value.b THEN <<"T", "r", "u", "e">> ELSE <<"F", "a", "l", "s", "e">>
  ELSE <<"N", "o", "n", "e">>

\* operand.join(parts)
RECURSIVE Join(_, _)
Join(operand, parts) ==
  IF parts = <<>> THEN <<>>
  ELSE IF Len(parts) = 1 THEN parts[1]
  ELSE parts[1] \o <<operand>> \o Join(operand, Tail(parts))

\* PythonAST2SQL: Raised stands for TypeError.  ast.Num and ast.Str are
\* ast.Constant nodes, which the Constant branch has taken already; so are
\* the literals None, True and False.
RECURSIVE PythonAST2SQL(_)
PythonAST2SQL(n) ==
  IF n.node = "BoolOp"
  THEN IF n.op \notin {"And", "Or"} THEN Raised
       ELSE LET parts == [i \in 1..Len(n.values) |-> PythonAST2SQL(n.values[i])]
            IN  IF \E i \in 1..Len(parts) : parts[i].raised THEN Raised
                ELSE Sql(Join(IF n.op = "And" THEN AND ELSE OR,
                              [i \in 1..Len(parts) |-> parts[i].text]))
  ELSE IF n.node = "Compare"
  THEN IF Len(n.ops) # 1 THEN Raised
       ELSE IF n.ops[1] \notin {"Eq", "NotEq"} THEN Raised
       ELSE IF Len(n.comparators) # 1 THEN Raised
       ELSE LET sql_left == PythonAST2SQL(n.left)
                sql_right == PythonAST2SQL(n.comparators[1])
            IN  IF sql_left.raised \/ sql_right.raised THEN Raised
                ELSE Sql(Join(IF n.ops[1] = "Eq" THEN EQ ELSE NE,
                              <<sql_left.text, sql_right.text>>))
  ELSE IF n.node = "Constant"
  THEN IF n.value.k = "str" THEN Sql(<<<<"\"", n.value.s, "\"">>>>)
       ELSE Sql(<<Str(n.value)>>)
  ELSE IF n.node = "Name" THEN Sql(<<<<n.id>>>>)
  ELSE Raised

\* What the query language makes of a predicate: AND binds tighter than OR,
\* a comparison is three lexemes.
RECURSIVE Split(_, _)
Split(text, keyword) ==
  LET at == {i \in 1..Len(text) : text[i] = keyword}
  IN  IF at = {} THEN <<text>>
      ELSE LET i == CHOOSE i \in at : \A j \in at : i <= j
           IN  <<SubSeq(text, 1, i - 1)>>
                 \o Split(SubSeq(text, i + 1, Len(text)), keyword)

SqlValue(lexeme, row) ==
  IF lexeme[1] = "\"" THEN StrV(lexeme[2])
  ELSE IF IsNumeric(lexeme) THEN IntV(ParseInt(lexeme))
  ELSE row[lexeme[1]]

\* A comparison with NULL is not true.
SqlComparison(text, row) ==
  IF SqlValue(text[1], row) = None \/ SqlValue(text[3], row) = None
  THEN FALSE
  ELSE IF text[2] = EQ THEN SqlValue(text[1], row) = SqlValue(text[3], row)
  ELSE SqlValue(text[1], row) # SqlValue(text[3], row)

\* cursor.execute accepts the predicate: what is no keyword, string or
\* number in it names a column of the table.
SqlPrepares(text, schema) ==
  \A i \in 1..Len(text) :
    \/ text[i] \in {AND, OR, EQ, NE}
    \/ text[i][1] = "\""
    \/ IsNumeric(text[i])
    \/ Len(text[i]) = 1 /\ text[i][1] \in DOMAIN schema

SqlWhere(text, row) ==
  LET terms == Split(text, OR)
  IN  \E i \in 1..Len(terms) :
        LET factors == Split(terms[i], AND)
        IN  \A j \in 1..Len(factors) : SqlComparison(factors[j], row)

\* What Python makes of the expression: eval(expression, namespace), as in
\* AttributeContainer.MatchesExpression.
PythonValue(n, namespace) ==
  IF n.node = "Name" THEN namespace[n.id] ELSE n.value

RECURSIVE Evaluate(_, _)
Evaluate(n, namespace) ==
  IF n.node = "BoolOp"
  THEN IF n.op = "And"
       THEN \A i \in 1..Len(n.values) : Evaluate(n.values[i], namespace)
       ELSE \E i \in 1..Len(n.values) : Evaluate(n.values[i], namespace)
  ELSE IF n.ops[1] = "Eq"
  THEN PythonValue(n.left, namespace) = PythonValue(n.comparators[1], namespace)
  ELSE PythonValue(n.left, namespace) # PythonValue(n.comparators[1], namespace)

\* The attribute values a filter is evaluated under.
Namespaces == [a : {IntV(1), IntV(2)}, b : {StrV("x"), StrV("y")}]

Comparisons ==
  {Compare(Name("a"), <<"Eq">>, <<Constant(IntV(1))>>),
   Compare(Name("a"), <<"Eq">>, <<Constant(IntV(2))>>),
   Compare(Name("b"), <<"Eq">>, <<Constant(StrV("x"))>>),
   Compare(Name("b"), <<"NotEq">>, <<Constant(StrV("x"))>>)}

\* The supported expressions with and/or nested to a depth.
RECURSIVE Expressions(_)
Expressions(depth) ==
  IF depth = 0 THEN Comparisons
  ELSE LET inner == Expressions(depth - 1)
       IN  inner \cup {BoolOp(op, <<l, r>>) :
                         op \in {"And", "Or"}, l \in inner, r \in inner}

\* Expressions that are no and/or of comparisons of a name or a literal: a
\* literal that is no string and no number, arithmetic, a function call,
\* negation, ordering, membership and a chained comparison.
OtherExpressions ==
  {Compare(Name("a"), <<"Eq">>, <<Constant(None)>>),
   Compare(BinOp(Name("a"), "Add", Constant(IntV(1))), <<"Eq">>,
           <<Constant(IntV(2))>>),
   Compare(Name("a"), <<"Eq">>, <<Call(Name("f"), <<Constant(IntV(1))>>)>>),
   UnaryOp("Not", Compare(Name("a"), <<"Eq">>, <<Constant(IntV(1))>>)),
   Compare(Name("a"), <<"Lt">>, <<Constant(IntV(2))>>),
   Compare(Name("b"), <<"In">>, <<Constant(StrV("x"))>>),
   Compare(Constant(IntV(1)), <<"Eq", "Eq">>,
           <<Name("a"), Constant(IntV(1))>>)}

\* Expressions of either sort with and/or nested to a depth.
RECURSIVE AnyExpressions(_)
AnyExpressions(depth) ==
  IF depth = 0
  THEN OtherExpressions
         \cup {Compare(Name("a"), <<"Eq">>, <<Constant(IntV(1))>>)}
  ELSE LET inner == AnyExpressions(depth - 1)
       IN  inner \cup {BoolOp(op, <<l, r>>) :
                         op \in {"And", "Or"}, l \in inner, r \in inner}

(***************************************************************************)
(* SQLite: a database is the metadata table and one table per container    *)
(* type.  A container table's rows are kept in _identifier order; the      *)
(* engine never deletes, so the row at position n has _identifier n        *)
(* (AUTOINCREMENT).  A metadata row is <<key, value>>.                     *)
(***************************************************************************)
NoTable == [exists |-> FALSE, rows |-> <<>>]

EmptyTable == [exists |-> TRUE, rows |-> <<>>]

EmptyDatabase ==
  [metadata |-> NoTable, containers |-> [t \in ContainerTypes |-> NoTable]]

\* {row[0]: row[1] for row in fetchall()}.get(key, None): the value of the
\* last row with the key.
MetadataGet(rows, key) ==
  LET hits == {i \in 1..Len(rows) : rows[i][1] = key}
  IN  IF hits = {} THEN [found |-> FALSE, text |-> <<>>]
      ELSE [found |-> TRUE,
            text |-> rows[CHOOSE i \in hits : \A j \in hits : j <= i][2]]

(***************************************************************************)
(* Container objects.  The caller and the read cache hold references to    *)
(* them, so they live in a heap; an object no one refers to is dropped.    *)
(***************************************************************************)
MaxObjects == MAXIMUM_CACHED_CONTAINERS + 2

ObjectIds == 1..MaxObjects

NoObject == 0

Free == [live |-> FALSE]

\* AttributeContainer.__init__ sets the identifier to (CONTAINER_TYPE,
\* id(self)): an address, which names no row.  It is modelled as 0.
ProvisionalSequenceNumber == 0

AttributeContainerIdentifier(name, sequence_number) ==
  [name |-> name, sequence_number |-> sequence_number]

NewContainer(container_type, attrs) ==
  [live |-> TRUE, ctype |-> container_type, attrs |-> attrs,
   ident |-> AttributeContainerIdentifier(
               container_type, ProvisionalSequenceNumber)]

Alloc(h) ==
  CHOOSE i \in ObjectIds : ~h[i].live /\ \A j \in 1..(i - 1) : h[j].live

Referenced(cache, keep) ==
  keep \cup {cache[k].obj : k \in 1..Len(cache)}

Collect(h, cache, keep) ==
  [i \in ObjectIds |-> IF i \in Referenced(cache, keep) THEN h[i] ELSE Free]

\* An object's address carries no meaning: the objects are renumbered in the
\* order of the read cache, the caller's object after them.
RECURSIVE Distinct(_)
Distinct(seq) ==
  IF seq = <<>> THEN <<>>
  ELSE LET front == Distinct(SubSeq(seq, 1, Len(seq) - 1))
           x == seq[Len(seq)]
       IN  IF \E i \in 1..Len(front) : front[i] = x THEN front
           ELSE Append(front, x)

AddressOrder(cache, obj) ==
  Distinct([k \in 1..Len(cache) |-> cache[k].obj]
             \o (IF obj = NoObject THEN <<>> ELSE <<obj>>))

Address(order, obj) ==
  IF obj = NoObject THEN NoObject
  ELSE CHOOSE i \in 1..Len(order) : order[i] = obj

(***************************************************************************)
(* The store object, the file, and what the caller holds.                  *)
(***************************************************************************)
VARIABLES
  store,   \* the SQLiteAttributeContainerStore object and its connection
  file,    \* the file at the path: whether it exists, its committed content
  heap,    \* the container objects
  held,    \* the container the caller holds (NoObject: none)
  gen,     \* the generator the caller holds
  last,    \* what the last call did and returned
  logical, \* per type, the values written as new, as later updated
  updates, \* the number of updates made
  ast_node, \* the filter expression handed to PythonAST2SQL
  sql,     \* what PythonAST2SQL made of it
  identifier_object, \* an AttributeContainerIdentifier object of the caller
  identifier_string, \* the string the caller copies it to or from
  attribute_type,   \* the data type of an attribute of the caller
  attribute_value,  \* its runtime value
  row_value,        \* its serialized value
  attribute_container_classes, \* AttributeContainersManager's dictionary
  registered,       \* the classes registered and not deregistered since
  manager_call      \* what the last call of the manager did and returned

\* An attribute of the caller.
schema_vars == <<attribute_type, attribute_value, row_value>>

\* The registry of container classes.
registry_vars == <<attribute_container_classes, registered, manager_call>>

vars ==
  <<store, file, heap, held, gen, last, logical, updates, ast_node, sql,
    identifier_object, identifier_string, schema_vars, registry_vars>>

\* Items of a write cache list: the column names, or one row's values.
Header(column_names) == [header |-> TRUE, items |-> column_names]

Row(values) == [header |-> FALSE, items |-> values]

\* SQLiteAttributeContainerStore.__init__
NewStore ==
  [is_open |-> FALSE,
   read_only |-> TRUE,
   connection |-> FALSE,
   format_version |-> FORMAT_VERSION,
   serialization_format |-> JSON,
   write_cache |-> [t \in ContainerTypes |-> <<>>],
   cache |-> <<>>,
   sequence_numbers |-> [t \in ContainerTypes |-> 0],
   db |-> EmptyDatabase,
   in_txn |-> FALSE]

\* A generator: where it stands, the type it iterates, the number of rows
\* it has yielded and the rows of the table when its query was run.
\* A variant of the generator whose cursor keeps no result of its query.
GeneratorWithoutRows(state, container_type, pos, rows) ==
  [state |-> state, ctype |-> container_type, pos |-> pos, rows |-> <<>>]

Generator(state, container_type, pos, rows) ==
  [state |-> state, ctype |-> container_type, pos |-> pos, rows |-> rows]

NoGenerator == Generator("none", "event", 0, <<>>)

NoExc == "none"

Outcome(s, exc) == [s |-> s, exc |-> exc]

\* CopyToString of an identifier whose name is None or StrV(text) and whose
\* sequence number is None or IntV(n): f'{name:s}.{sequence_number:d}'.
CopyToString(id) ==
  IF id.name # None /\ id.sequence_number # None
  THEN StrV(id.name.s \o <<".">>
              \o (IF id.sequence_number.n < 0
                  THEN <<"-">> \o FormatInt(0 - id.sequence_number.n)
                  ELSE FormatInt(id.sequence_number.n)))
  ELSE None

\* CopyFromString: the identifier as the call leaves it and the exception it
\* raised.  The unpacking of split('.') raises ValueError unless there are
\* two parts, and assigns the name before int() sees the second part.
CopyFromString(id, text) ==
  LET parts == Split(text, ".")
  IN  IF Len(parts) # 2 THEN [identifier |-> id, exc |-> "ValueError"]
      ELSE IF ~IsNumeric(parts[2])
      THEN [identifier |-> [id EXCEPT !.name = StrV(parts[1])],
            exc |-> "ValueError"]
      ELSE [identifier |->
              AttributeContainerIdentifier(StrV(parts[1]),
                                           IntV(ParseInt(parts[2]))),
            exc |-> NoExc]

(***************************************************************************)
(* SQLiteSchemaHelper.                                                     *)
(***************************************************************************)
MAPPINGS == {"bool", "int", "str", "timestamp"}

\* The data types SchemaHelper declares when no other is registered.
DataTypes == {"AttributeContainerIdentifier"} \cup MAPPINGS

\* SchemaHelper.HasDataType
HasDataType(data_type) == data_type \in DataTypes

\* A runtime value that is an AttributeContainerIdentifier object.
IdV(id) == [k |-> "identifier", id |-> id]

\* In the place of a value: the call raised this exception.
Exception(exc) == [k |-> "exception", exc |-> exc]

\* SerializeValue: a declared data type outside _MAPPINGS other than the
\* identifier would go to the JSON serializer; none is declared here.
SerializeValue(data_type, value) ==
  IF ~HasDataType(data_type) THEN Exception("UnsupportedDataType")
  ELSE IF value = None THEN value
  ELSE IF data_type = "AttributeContainerIdentifier" /\ value.k = "identifier"
  THEN CopyToString(value.id)
  ELSE IF data_type = "bool"
  THEN IF value.k = "bool" THEN IntV(IF value.b THEN 1 ELSE 0) ELSE value
  ELSE value

\* DeserializeValue: bool(value) of a stored integer; CopyFromString on a
\* new identifier object, whose ValueError leaves the method.
DeserializeValue(data_type, value) ==
  IF ~HasDataType(data_type) THEN Exception("UnsupportedDataType")
  ELSE IF value = None THEN value
  ELSE IF data_type = "AttributeContainerIdentifier"
  THEN LET r == CopyFromString(AttributeContainerIdentifier(None, None),
                               value.s)
       IN  IF r.exc # NoExc THEN Exception(r.exc) ELSE IdV(r.identifier)
  ELSE IF data_type = "bool" THEN BoolV(value.n # 0)
  ELSE value

(***************************************************************************)
(* Internal methods, as operators on the store object s.  An operator that *)
(* can raise returns Outcome(s, exc): the object as the call left it and   *)
(* the exception raised (NoExc: none).                                     *)
(***************************************************************************)
\* _HasTable
HasTable(s, table_name) ==
  IF table_name = "metadata" THEN s.db.metadata.exists
  ELSE s.db.containers[table_name].exists

\* The row an INSERT with these column names and values adds: a column the
\* statement does not name is NULL.
InsertedRow(schema, column_names, values) ==
  [name \in DOMAIN schema |->
     IF \E k \in 1..Len(column_names) : column_names[k] = name
     THEN values[CHOOSE k \in 1..Len(column_names) : column_names[k] = name]
     ELSE None]

\* A variant of _FlushWriteCache that inserts the rows last first.
FlushWriteCacheReversed(s, container_type, write_cache) ==
  LET column_names == Head(write_cache)
      rest == Tail(write_cache)
      schema == GetSchema(container_type)
      inserted ==
        [i \in 1..Len(rest) |->
           InsertedRow(schema, column_names.items,
                       rest[Len(rest) + 1 - i].items)]
  IN  IF ~s.connection \/ ~HasTable(s, container_type)
      THEN [s |-> s, list |-> rest, exc |-> "StorageQueryFailed"]
      ELSE [s |-> [s EXCEPT !.db.containers[container_type].rows =
                              @ \o inserted,
                            !.in_txn = TRUE],
            list |-> rest, exc |-> NoExc]

\* _FlushWriteCache: pops the first item of the list as the column names and
\* inserts the rest in one statement.  list is the list as the call left it.
FlushWriteCache(s, container_type, write_cache) ==
  LET column_names == Head(write_cache)
      rest == Tail(write_cache)
      schema == GetSchema(container_type)
      inserted ==
        [i \in 1..Len(rest) |->
           InsertedRow(schema, column_names.items, rest[i].items)]
  IN  IF ~column_names.header
      THEN [s |-> s, list |-> rest,
            exc |-> IF \A i \in 1..Len(column_names.items) :
                         column_names.items[i].k = "str"
                    THEN "StorageQueryFailed" ELSE "TypeError"]
      ELSE IF ~s.connection
      THEN [s |-> s, list |-> rest, exc |-> "AttributeError"]
      ELSE IF ~HasTable(s, container_type)
      THEN [s |-> s, list |-> rest, exc |-> "StorageQueryFailed"]
      ELSE [s |-> [s EXCEPT !.db.containers[container_type].rows =
                              @ \o inserted,
                            !.in_txn = TRUE],
            list |-> rest, exc |-> NoExc]

\* A variant of _CommitWriteCache that leaves the list as it is.
SkipCommitWriteCache(s, container_type) == Outcome(s, NoExc)

\* A variant of _CommitWriteCache that removes the list of every type.
CommitAndDropWriteCaches(s, container_type) ==
  LET write_cache == s.write_cache[container_type]
      dropped == [t \in DOMAIN s.write_cache |-> <<>>]
  IN  IF Len(write_cache) > 1
      THEN LET r == FlushWriteCache(s, container_type, write_cache)
           IN  IF r.exc = NoExc
               THEN Outcome([r.s EXCEPT !.write_cache = dropped], NoExc)
               ELSE Outcome([r.s EXCEPT !.write_cache[container_type] = r.list],
                            r.exc)
      ELSE Outcome(s, NoExc)

\* _CommitWriteCache
CommitWriteCache(s, container_type) ==
  LET write_cache == s.write_cache[container_type]
  IN  IF Len(write_cache) > 1
      THEN LET r == FlushWriteCache(s, container_type, write_cache)
           IN  IF r.exc = NoExc
               THEN Outcome([r.s EXCEPT !.write_cache[container_type] = <<>>],
                            NoExc)
               ELSE Outcome([r.s EXCEPT !.write_cache[container_type] = r.list],
                            r.exc)
      ELSE Outcome(s, NoExc)

\* _CacheAttributeContainerForWrite
CacheAttributeContainerForWrite(s, container_type, column_names, values) ==
  LET absent == s.write_cache[container_type] = <<>>
      write_cache ==
        Append(IF absent THEN <<Header(column_names)>>
               ELSE s.write_cache[container_type],
               Row(values))
  IN  IF Len(write_cache) >= MAXIMUM_WRITE_CACHE_SIZE
      THEN LET r == FlushWriteCache(s, container_type, write_cache)
           IN  IF r.exc = NoExc
               THEN Outcome([r.s EXCEPT !.write_cache[container_type] =
                                          <<Header(column_names)>>], NoExc)
               ELSE Outcome([r.s EXCEPT !.write_cache[container_type] =
                                          IF absent THEN <<>> ELSE r.list],
                            r.exc)
      ELSE Outcome([s EXCEPT !.write_cache[container_type] = write_cache],
                   NoExc)

\* _CacheAttributeContainerByIndex: the front of the sequence is the most
\* recently used entry (move_to_end(last=False)), popitem(last=True) drops
\* the entry at the back.
CacheAttributeContainerByIndex(cache, container_type, index, obj) ==
  LET kept == IF Len(cache) >= MAXIMUM_CACHED_CONTAINERS
              THEN SubSeq(cache, 1, Len(cache) - 1) ELSE cache
      lookup_key == <<container_type, index>>
  IN  <<[key |-> lookup_key, obj |-> obj]>>
        \o SelectSeq(kept, LAMBDA e : e.key # lookup_key)

\* A variant of _GetCachedAttributeContainer that leaves the entry where it
\* is.
PeekCachedAttributeContainer(cache, container_type, index) ==
  LET hits == {k \in 1..Len(cache) : cache[k].key = <<container_type, index>>}
  IN  IF hits = {} THEN [obj |-> NoObject, cache |-> cache]
      ELSE [obj |-> cache[CHOOSE k \in hits : TRUE].obj, cache |-> cache]

\* _GetCachedAttributeContainer: the object found (NoObject: none) and the
\* cache with the entry moved to the front.
GetCachedAttributeContainer(cache, container_type, index) ==
  LET lookup_key == <<container_type, index>>
      hits == {k \in 1..Len(cache) : cache[k].key = lookup_key}
  IN  IF hits = {} THEN [obj |-> NoObject, cache |-> cache]
      ELSE LET k == CHOOSE k \in hits : TRUE
           IN  [obj |-> cache[k].obj,
                cache |-> <<cache[k]>>
                            \o SelectSeq(cache, LAMBDA e : e.key # lookup_key)]

\* _CreateAttributeContainerTable: CREATE TABLE opens no transaction.
CreateAttributeContainerTable(s, container_type) ==
  [s EXCEPT !.db.containers[container_type] = EmptyTable]

\* A variant of connection.commit() that leaves the transaction open.
NoCommit(s) == s

\* connection.commit()
Commit(s) == [s EXCEPT !.in_txn = FALSE]

\* A variant of _CheckStorageMetadata that compares the version with the read
\* floor before it compares it with the append floor.
CheckStorageMetadataReadFirst(rows, check_readable_only) ==
  LET format_version == MetadataGet(rows, "format_version")
      serialization_format == MetadataGet(rows, "serialization_format")
  IN  IF ~format_version.found \/ ~IsNumeric(format_version.text)
      THEN "InvalidMetadata"
      ELSE LET version == ParseInt(format_version.text)
           IN  IF version < READ_COMPATIBLE_FORMAT_VERSION
               THEN "TooOldToRead"
               ELSE IF ~check_readable_only
                       /\ version < APPEND_COMPATIBLE_FORMAT_VERSION
               THEN "TooOldToWrite"
               ELSE IF version > FORMAT_VERSION THEN "TooNewToRead"
               ELSE IF ~serialization_format.found
                       \/ serialization_format.text # JSON
               THEN "UnsupportedSerialization"
               ELSE NoExc

\* _CheckStorageMetadata: the exception raised, NoExc when the metadata pass.
CheckStorageMetadata(rows, check_readable_only) ==
  LET format_version == MetadataGet(rows, "format_version")
      serialization_format == MetadataGet(rows, "serialization_format")
  IN  IF ~format_version.found \/ format_version.text = <<>>
      THEN "InvalidMetadata"
      ELSE IF ~IsNumeric(format_version.text) THEN "InvalidMetadata"
      ELSE LET version == ParseInt(format_version.text)
           IN  IF ~check_readable_only
                  /\ version < APPEND_COMPATIBLE_FORMAT_VERSION
               THEN "TooOldToWrite"
               ELSE IF version < READ_COMPATIBLE_FORMAT_VERSION
               THEN "TooOldToRead"
               ELSE IF version > FORMAT_VERSION THEN "TooNewToRead"
               ELSE IF ~serialization_format.found
                       \/ serialization_format.text # JSON
               THEN "UnsupportedSerialization"
               ELSE NoExc

\* _ReadAndCheckStorageMetadata (with _ReadMetadata)
ReadAndCheckStorageMetadata(s, check_readable_only) ==
  IF ~HasTable(s, "metadata") THEN Outcome(s, "StorageQueryFailed")
  ELSE LET rows == s.db.metadata.rows
           exc == CheckStorageMetadata(rows, check_readable_only)
       IN  IF exc # NoExc THEN Outcome(s, exc)
           ELSE Outcome(
                  [s EXCEPT
                     !.format_version =
                        ParseInt(MetadataGet(rows, "format_version").text),
                     !.serialization_format =
                        MetadataGet(rows, "serialization_format").text],
                  NoExc)

\* A variant of _UpdateStorageMetadataFormatVersion whose UPDATE has no WHERE
\* clause.
UpdateEveryMetadataValue(s) ==
  [s EXCEPT
     !.db.metadata.rows =
        [i \in 1..Len(@) |-> <<@[i][1], FormatInt(FORMAT_VERSION)>>],
     !.in_txn = TRUE]

\* _UpdateStorageMetadataFormatVersion
UpdateStorageMetadataFormatVersion(s) ==
  IF s.format_version >= UPGRADE_COMPATIBLE_FORMAT_VERSION
  THEN [s EXCEPT
          !.db.metadata.rows =
             [i \in 1..Len(@) |->
                IF @[i][1] = "format_version"
                THEN <<"format_version", FormatInt(FORMAT_VERSION)>>
                ELSE @[i]],
          !.in_txn = TRUE]
  ELSE s

\* _WriteMetadata (with _WriteMetadataValue)
WriteMetadata(s) ==
  [s EXCEPT
     !.db.metadata =
        [exists |-> TRUE,
         rows |-> <<<<"format_version", FormatInt(FORMAT_VERSION)>>,
                    <<"serialization_format", s.serialization_format>>>>],
     !.in_txn = TRUE]

\* A variant of GetNumberOfAttributeContainers that does not flush the
\* type's list before it queries the table.
CountStoredRows(s, container_type) ==
  IF ~s.connection THEN [s |-> s, exc |-> "AttributeError", count |-> 0]
  ELSE IF ~HasTable(s, container_type)
  THEN [s |-> s, exc |-> NoExc, count |-> 0]
  ELSE [s |-> s, exc |-> NoExc,
        count |-> Len(s.db.containers[container_type].rows)]

\* GetNumberOfAttributeContainers: the count is MAX(_ROWID_).
GetNumberOfAttributeContainers(s, container_type) ==
  LET r == CommitWriteCache(s, container_type)
  IN  IF r.exc # NoExc THEN [s |-> r.s, exc |-> r.exc, count |-> 0]
      ELSE IF ~r.s.connection
      THEN [s |-> r.s, exc |-> "AttributeError", count |-> 0]
      ELSE IF ~HasTable(r.s, container_type)
      THEN [s |-> r.s, exc |-> NoExc, count |-> 0]
      ELSE [s |-> r.s, exc |-> NoExc,
            count |-> Len(r.s.db.containers[container_type].rows)]

\* The loop that ends Open: the next sequence number of every registered
\* type is set from the number of its rows.
RECURSIVE InitSequenceNumbers(_, _)
InitSequenceNumbers(s, types) ==
  IF types = {} THEN Outcome(s, NoExc)
  ELSE LET container_type == CHOOSE t \in types : TRUE
           r == GetNumberOfAttributeContainers(s, container_type)
       IN  IF r.exc # NoExc THEN Outcome(r.s, r.exc)
           ELSE InitSequenceNumbers(
                  [r.s EXCEPT !.sequence_numbers[container_type] = r.count],
                  types \ {container_type})

\* A variant of the loop of _Flush that flushes no list.
FlushNoTypes(s, types) == Outcome(s, NoExc)

\* _Flush
RECURSIVE FlushTypes(_, _)
FlushTypes(s, types) ==
  IF types = {} THEN Outcome(s, NoExc)
  ELSE LET container_type == CHOOSE t \in types : TRUE
           write_cache == s.write_cache[container_type]
       IN  IF Len(write_cache) > 1
           THEN LET r == FlushWriteCache(s, container_type, write_cache)
                    left == [r.s EXCEPT !.write_cache[container_type] = r.list]
                IN  IF r.exc # NoExc THEN Outcome(left, r.exc)
                    ELSE FlushTypes(left, types \ {container_type})
           ELSE FlushTypes(s, types \ {container_type})

Flush(s) ==
  LET r == FlushTypes(s, {t \in ContainerTypes : s.write_cache[t] # <<>>})
  IN  IF r.exc # NoExc THEN r
      ELSE Outcome(
             Commit([r.s EXCEPT
                       !.write_cache = [t \in ContainerTypes |-> <<>>]]),
             NoExc)

\* _RaiseIfNotReadable
RaiseIfNotReadable(s) == IF ~s.is_open THEN "NotOpen" ELSE NoExc

\* A variant of _RaiseIfNotWritable that looks at _is_open only.
RaiseIfClosed(s) == IF ~s.is_open THEN "NotOpen" ELSE NoExc

\* _RaiseIfNotWritable
RaiseIfNotWritable(s) ==
  IF ~s.is_open THEN "NotOpen"
  ELSE IF s.read_only THEN "ReadOnly"
  ELSE NoExc

\* The values of a container's schema attributes, serialized, in the order
\* of the sorted attribute names.
SerializedValues(schema, attrs) ==
  LET names == SortedNames(schema)
  IN  [i \in 1..Len(names) |-> SerializeValue(schema[names[i]], attrs[names[i]])]

\* The exception SerializeValue raised for one of the values (NoExc: for
\* none): the loop over the schema re-raises it.
Unserialized(values) ==
  IF \E i \in 1..Len(values) :
       values[i] # None /\ values[i].k = "exception"
  THEN "UnsupportedDataType" ELSE NoExc

\* _WriteNewAttributeContainer, on the container object obj of heap h: the
\* sequence number is taken, the table created and the identifier set before
\* the values are serialized.
WriteNewAttributeContainer(s, h, obj) ==
  LET container_type == h[obj].ctype
      next_sequence_number == s.sequence_numbers[container_type] + 1
      counted == [s EXCEPT !.sequence_numbers[container_type] =
                             next_sequence_number]
      tabled == IF next_sequence_number = 1 /\ ~HasTable(counted, container_type)
                THEN CreateAttributeContainerTable(counted, container_type)
                ELSE counted
      identified ==
        [h EXCEPT ![obj].ident =
           AttributeContainerIdentifier(container_type, next_sequence_number)]
      schema == GetSchema(container_type)
      row_values == SerializedValues(schema, h[obj].attrs)
      r == CacheAttributeContainerForWrite(
             tabled, container_type, SortedNames(schema), row_values)
  IN  IF Unserialized(row_values) # NoExc
      THEN [s |-> tabled, h |-> identified, exc |-> Unserialized(row_values)]
      ELSE IF r.exc # NoExc THEN [s |-> r.s, h |-> identified, exc |-> r.exc]
      ELSE [s |-> [r.s EXCEPT !.cache =
                     CacheAttributeContainerByIndex(
                       @, container_type, next_sequence_number - 1, obj)],
            h |-> identified, exc |-> NoExc]

\* A variant of the UPDATE that has no WHERE clause: every row is replaced.
UpdatedEveryRow(rows, n, row) ==
  [i \in 1..Len(rows) |-> row]

\* UPDATE ... WHERE _identifier = n: the rows with the row n replaced.
UpdatedRows(rows, n, row) ==
  [i \in 1..Len(rows) |-> IF i = n THEN row ELSE rows[i]]

\* A variant of _WriteExistingAttributeContainer that runs its UPDATE with
\* the type's list still pending.
UpdateBeforePendingRows(s, h, obj) ==
  LET container_type == h[obj].ctype
      schema == GetSchema(container_type)
  IN  IF ~s.connection THEN Outcome(s, "AttributeError")
      ELSE IF ~HasTable(s, container_type)
      THEN Outcome(s, "StorageQueryFailed")
      ELSE Outcome(
             [s EXCEPT
                !.db.containers[container_type].rows =
                   UpdatedRows(@, h[obj].ident.sequence_number,
                               InsertedRow(schema, SortedNames(schema),
                                           SerializedValues(schema,
                                                            h[obj].attrs))),
                !.in_txn = TRUE],
             NoExc)

\* _WriteExistingAttributeContainer
WriteExistingAttributeContainer(s, h, obj) ==
  LET container_type == h[obj].ctype
      r == CommitWriteCache(s, container_type)
      identifier == h[obj].ident
      schema == GetSchema(container_type)
      names == SortedNames(schema)
      values == SerializedValues(schema, h[obj].attrs)
  IN  IF r.exc # NoExc THEN r
      ELSE IF Unserialized(values) # NoExc
      THEN Outcome(r.s, Unserialized(values))
      ELSE IF ~r.s.connection THEN Outcome(r.s, "AttributeError")
      ELSE IF ~HasTable(r.s, container_type)
      THEN Outcome(r.s, "StorageQueryFailed")
      ELSE Outcome(
             [r.s EXCEPT
                !.db.containers[container_type].rows =
                   UpdatedRows(@, identifier.sequence_number,
                               InsertedRow(schema, names, values)),
                !.in_txn = TRUE],
             NoExc)

\* _CreatetAttributeContainerFromRow: a NULL column leaves the attribute
\* unset.
CreateAttributeContainerFromRow(container_type, row) ==
  LET schema == GetSchema(container_type)
  IN  NewContainer(
        container_type,
        [name \in DOMAIN schema |-> DeserializeValue(schema[name], row[name])])

\* A variant of the result of a read that raises where no container is found.
ReadResultOrIndexError(s, h, exc, obj, from_cache) ==
  [s |-> s, h |-> h,
   exc |-> IF obj = NoObject /\ exc = NoExc THEN "IndexError" ELSE exc,
   obj |-> obj, from_cache |-> from_cache]

ReadResult(s, h, exc, obj, from_cache) ==
  [s |-> s, h |-> h, exc |-> exc, obj |-> obj, from_cache |-> from_cache]

\* GetAttributeContainerByIndex
GetAttributeContainerByIndex(s, h, container_type, index) ==
  LET cached == GetCachedAttributeContainer(s.cache, container_type, index)
      r == CommitWriteCache(s, container_type)
      rows == r.s.db.containers[container_type].rows
      row_number == index + 1
      obj == Alloc(h)
      container ==
        [CreateAttributeContainerFromRow(container_type, rows[row_number])
           EXCEPT !.ident =
             AttributeContainerIdentifier(container_type, row_number)]
  IN  IF cached.obj # NoObject
      THEN ReadResult([s EXCEPT !.cache = cached.cache], h, NoExc,
                      cached.obj, TRUE)
      ELSE IF r.exc # NoExc THEN ReadResult(r.s, h, r.exc, NoObject, FALSE)
      ELSE IF r.s.sequence_numbers[container_type] = 0
      THEN ReadResult(r.s, h, NoExc, NoObject, FALSE)
      ELSE IF ~r.s.connection
      THEN ReadResult(r.s, h, "AttributeError", NoObject, FALSE)
      ELSE IF ~HasTable(r.s, container_type)
      THEN ReadResult(r.s, h, "StorageQueryFailed", NoObject, FALSE)
      ELSE IF row_number \notin 1..Len(rows)
      THEN ReadResult(r.s, h, NoExc, NoObject, FALSE)
      ELSE ReadResult(
             [r.s EXCEPT !.cache =
                CacheAttributeContainerByIndex(@, container_type, index, obj)],
             [h EXCEPT ![obj] = container], NoExc, obj, FALSE)

\* sqlite3.connect(path): the file exists from then on.
Connect(f) == [f EXCEPT !.exists = TRUE]

\* CheckSupportedFormat(path) on the file f: the file as the call leaves it,
\* the exception that leaves the method and the value returned.  result is
\* assigned only when the format version converts to an integer and when an
\* exception is caught; return result with result unassigned raises
\* UnboundLocalError, outside the try statement.
CheckSupportedFormat(f) ==
  LET connected == Connect(f)
      format_version == MetadataGet(connected.db.metadata.rows, "format_version")
  IN  IF ~f.exists THEN [f |-> f, exc |-> NoExc, result |-> FALSE]
      ELSE IF ~connected.db.metadata.exists
      THEN [f |-> connected, exc |-> NoExc, result |-> FALSE]
      ELSE IF format_version.found /\ format_version.text # <<>>
              /\ IsNumeric(format_version.text)
      THEN [f |-> connected, exc |-> NoExc, result |-> TRUE]
      ELSE [f |-> connected, exc |-> "UnboundLocalError", result |-> FALSE]

(***************************************************************************)
(* What the model records of a call.                                       *)
(***************************************************************************)
Rows(s, t) == s.db.containers[t].rows

\* The number of rows in the tables of the types.
RECURSIVE NumberOfRows(_, _)
NumberOfRows(s, types) ==
  IF types = {} THEN 0
  ELSE LET t == CHOOSE t \in types : TRUE
       IN  Len(Rows(s, t)) + NumberOfRows(s, types \ {t})

\* The rows of the type's list still waiting for a flush.
Pending(s, t) ==
  IF s.write_cache[t] = <<>> THEN 0 ELSE Len(s.write_cache[t]) - 1

\* op: the method; ctype, index: its arguments; exc: the exception it raised;
\* from_cache: a read that the read cache served; count: the number a count
\* returned, or the number of rows a generator's query found; inserted: the
\* number of rows the call inserted in the type's table (Open: in the
\* metadata table; Close: in the tables of all types).
Called(op, t, index, exc, from_cache, count, inserted) ==
  [op |-> op, ctype |-> t, index |-> index, exc |-> exc,
   from_cache |-> from_cache, count |-> count, inserted |-> inserted]

\* What a commit leaves in the file: with no transaction open, the file
\* holds what the connection sees.
Committed(s) == IF s.connection /\ ~s.in_txn THEN s.db ELSE file.db

\* The end of a call that leaves the store object s, the heap h and the
\* caller holding obj.
Return(s, h, obj, g, l, lg) ==
  LET order == AddressOrder(s.cache, obj)
  IN  /\ store' = [s EXCEPT !.cache =
                     [k \in 1..Len(@) |->
                        [@[k] EXCEPT !.obj = Address(order, @)]]]
      /\ file' = [exists |-> file.exists \/ s.connection, db |-> Committed(s)]
      /\ heap' = [i \in ObjectIds |->
                    IF i <= Len(order) THEN h[order[i]] ELSE Free]
      /\ held' = Address(order, obj)
      /\ gen' = g
      /\ last' = l
      /\ logical' = lg
      /\ updates' = IF l.op = "Update" THEN updates + 1 ELSE updates
      /\ UNCHANGED <<ast_node, sql, identifier_object, identifier_string, schema_vars, registry_vars>>

\* A call that raises before it changes anything.
Refuse(op, t, exc) ==
  Return(store, heap, held, gen,
         Called(op, t, 0, exc, FALSE, 0, 0), logical)

AbsentFile == [exists |-> FALSE, db |-> EmptyDatabase]

\* No expression has been handed to PythonAST2SQL.
NoNode == [node |-> "None"]

NotTranslated == [raised |-> FALSE, text |-> <<>>]

\* The store object, the file and what the caller holds, just after the
\* store object was constructed.
ConstructedStore(stored, node) ==
  /\ store = NewStore
  /\ file = stored
  /\ ast_node = node
  /\ sql = NotTranslated
  /\ heap = [i \in ObjectIds |-> Free]
  /\ held = NoObject
  /\ gen = NoGenerator
  /\ last = Called("init", "event", 0, NoExc, FALSE, 0, 0)
  /\ logical = [t \in ContainerTypes |-> <<>>]
  /\ updates = 0

\* The caller has no attribute value to serialize.
NoAttribute ==
  /\ attribute_type = "str"
  /\ attribute_value = None
  /\ row_value = None

\* AttributeContainerIdentifier(): neither field is set.
NoIdentifier == AttributeContainerIdentifier(None, None)

\* No call of the manager has been made.
NoCall == [op |-> "none", argument |-> <<>>, exc |-> NoExc, result |-> <<>>]

\* The manager's dictionary as the class statement leaves it: {}.
EmptyRegistry ==
  /\ attribute_container_classes = <<>>
  /\ registered = {}
  /\ manager_call = NoCall

\* A store object that was just constructed, for the file at its path.
Constructed(stored, node) ==
  /\ EmptyRegistry
  /\ identifier_object = NoIdentifier
  /\ identifier_string = None
  /\ NoAttribute
  /\ ConstructedStore(stored, node)

Init == Constructed(AbsentFile, NoNode)

(***************************************************************************)
(* The public methods.                                                     *)
(***************************************************************************)
\* The path arguments of Open: none (None or ''), and the path of the file.
NoPath == "none"

Path == "store"

Paths == {NoPath, Path}

\* Open(path, read_only) past its two checks: connects, negotiates the
\* metadata and sets the sequence numbers.  _is_open is set before the
\* metadata are read.
OpenPath(read_only) ==
  LET connected ==
        [store EXCEPT !.connection = TRUE, !.is_open = TRUE,
                      !.read_only = read_only, !.db = file.db,
                      !.in_txn = FALSE]
      checked == ReadAndCheckStorageMetadata(connected, read_only)
      negotiated ==
        IF read_only THEN checked
        ELSE IF ~HasTable(connected, "metadata")
        THEN Outcome(Commit(WriteMetadata(connected)), NoExc)
        ELSE IF checked.exc # NoExc THEN checked
        ELSE Outcome(Commit(UpdateStorageMetadataFormatVersion(checked.s)),
                     NoExc)
      result ==
        IF negotiated.exc # NoExc THEN negotiated
        ELSE InitSequenceNumbers(negotiated.s, GetContainerTypes)
  IN  IF read_only /\ ~file.exists
      THEN Refuse("Open", "event", "OperationalError")
      ELSE Return(result.s, heap, held, gen,
                  Called("Open", "event", 0, result.exc, FALSE, 0,
                         Len(result.s.db.metadata.rows)
                           - Len(file.db.metadata.rows)),
                  logical)

\* Open that neither looks at _is_open nor at the path.
OpenUnchecked(path, read_only) == OpenPath(read_only)

Open(path, read_only) ==
  IF store.is_open THEN Refuse("Open", "event", "AlreadyOpen")
  ELSE IF path = NoPath THEN Refuse("Open", "event", "MissingPath")
  ELSE OpenPath(read_only)

\* Close: the cursor of a generator that is being iterated dies with the
\* connection.
Close ==
  LET r == Flush(store)
      closed == [r.s EXCEPT !.connection = FALSE, !.is_open = FALSE,
                            !.db = EmptyDatabase, !.in_txn = FALSE]
  IN  IF ~store.is_open THEN Refuse("Close", "event", "NotOpen")
      ELSE IF r.exc # NoExc
      THEN Return(r.s, heap, held, gen,
                  Called("Close", "event", 0, r.exc, FALSE, 0, 0),
                  logical)
      ELSE /\ store' = closed
           /\ file' = [exists |-> TRUE, db |-> r.s.db]
           /\ heap' = heap
           /\ held' = held
           /\ gen' = IF gen.state = "running"
                     THEN Generator("orphaned", gen.ctype, gen.pos, <<>>)
                     ELSE gen
           /\ last' = Called("Close", "event", 0, NoExc, FALSE, 0,
                             NumberOfRows(r.s, ContainerTypes)
                               - NumberOfRows(store, ContainerTypes))
           /\ logical' = logical
           /\ UNCHANGED <<updates, ast_node, sql, identifier_object,
                        identifier_string, schema_vars, registry_vars>>

\* SQLiteAttributeContainerStore(): the program drops the store object it
\* has closed and constructs another for the same file, as a program that
\* is started again does.
Construct ==
  /\ ~store.is_open
  /\ store # NewStore
  /\ store' = NewStore
  /\ heap' = [i \in ObjectIds |-> Free]
  /\ held' = NoObject
  /\ gen' = NoGenerator
  /\ last' = Called("init", "event", 0, NoExc, FALSE, 0, 0)
  /\ UNCHANGED <<file, logical, updates, ast_node, sql,
                 identifier_object, identifier_string, schema_vars, registry_vars>>

\* CheckSupportedFormat(path), a class method: it has a connection of its
\* own and sees what is committed.  count is 1 for True.
CheckSupported ==
  LET r == CheckSupportedFormat(file)
  IN  /\ store' = store
      /\ file' = r.f
      /\ last' = Called("CheckSupportedFormat", "event", 0, r.exc, FALSE,
                        IF r.result THEN 1 ELSE 0, 0)
      /\ UNCHANGED <<heap, held, gen, logical, updates, ast_node, sql,
                     identifier_object, identifier_string, schema_vars, registry_vars>>

\* AddAttributeContainer(container) on the container object obj of heap h.
Add(h, obj, limit) ==
  LET t == h[obj].ctype
      refused == RaiseIfNotWritable(store)
      w == WriteNewAttributeContainer(store, h, obj)
      inserted == Len(Rows(w.s, t)) - Len(Rows(store, t))
  IN  /\ Len(logical[t]) < limit
      /\ IF refused # NoExc
         THEN Return(store, heap, held, gen,
                     Called("Add", t, 0, refused, FALSE, 0, 0),
                     logical)
         ELSE Return(w.s, w.h, obj, gen,
                     Called("Add", t, w.h[obj].ident.sequence_number - 1,
                            w.exc, FALSE, 0, inserted),
                     IF w.exc = NoExc
                     THEN [logical EXCEPT ![t] = Append(@, h[obj].attrs)]
                     ELSE logical)

\* The caller makes a container with these values and adds it.
AddNew(t, attrs, limit) ==
  LET obj == Alloc(Collect(heap, store.cache, {}))
  IN  Add([Collect(heap, store.cache, {}) EXCEPT ![obj] = NewContainer(t, attrs)],
          obj, limit)

\* The caller adds the container it holds once more.
AddHeld(limit) ==
  /\ held # NoObject
  /\ Add(heap, held, limit)

\* The caller sets the attributes of the container it holds and calls
\* UpdateAttributeContainer(container).  A caller whose update is refused
\* puts the old values back.
UpdateHeld(attrs) ==
  LET t == heap[held].ctype
      h == [heap EXCEPT ![held].attrs = attrs]
      refused == RaiseIfNotWritable(store)
      w == WriteExistingAttributeContainer(store, h, held)
      n == h[held].ident.sequence_number
      inserted == Len(Rows(w.s, t)) - Len(Rows(store, t))
  IN  /\ held # NoObject
      /\ updates < MaxUpdates
      /\ attrs \in UpdateValues(t)
      /\ IF refused # NoExc
         THEN Return(store, heap, held, gen,
                     Called("Update", t, n - 1, refused, FALSE, 0, 0),
                     logical)
         ELSE Return(w.s, h, held, gen,
                     Called("Update", t, n - 1, w.exc, FALSE, 0, inserted),
                     IF w.exc = NoExc /\ n \in 1..Len(logical[t])
                     THEN [logical EXCEPT ![t][n] = attrs] ELSE logical)

Read(op, t, index) ==
  LET r == GetAttributeContainerByIndex(
             store, Collect(heap, store.cache, {}), t, index)
  IN  Return(r.s, r.h, r.obj, gen,
             Called(op, t, index, r.exc, r.from_cache, 0,
                    Len(Rows(r.s, t)) - Len(Rows(store, t))),
             logical)

\* GetAttributeContainerByIndex(container_type, index)
GetByIndex(t, index) == Read("GetByIndex", t, index)

\* GetAttributeContainerByIdentifier(container_type, identifier)
GetByIdentifier(t, identifier) ==
  Read("GetByIdentifier", t, identifier.sequence_number - 1)

\* GetNumberOfAttributeContainers(container_type)
GetNumber(t) ==
  LET r == GetNumberOfAttributeContainers(store, t)
  IN  Return(r.s, heap, held, gen,
             Called("GetNumber", t, 0, r.exc, FALSE, r.count,
                    Len(Rows(r.s, t)) - Len(Rows(store, t))),
             logical)

\* HasAttributeContainers(container_type): count is 1 for True.
Has(t) ==
  LET r == GetNumberOfAttributeContainers(store, t)
  IN  Return(r.s, heap, held, gen,
             Called("Has", t, 0, r.exc, FALSE,
                    IF r.count > 0 THEN 1 ELSE 0,
                    Len(Rows(r.s, t)) - Len(Rows(store, t))),
             logical)

\* GetAttributeContainers(container_type): returns a generator; nothing of
\* _GetAttributeContainersWithFilter runs before the first next().
GetAttributeContainers(t) ==
  Return(store, heap, held, Generator("created", t, 0, <<>>),
         Called("GetAttributeContainers", t, 0, NoExc, FALSE, 0, 0),
         logical)

\* A variant of GetAttributeContainers that flushes the type's list before
\* it looks up the schema and translates the expression.
GetAttributeContainersFlushFirst(t, node) ==
  LET r == CommitWriteCache(store, t)
      sql_filter_expression ==
        IF node = NoNode THEN NotTranslated ELSE PythonAST2SQL(node)
      exc == IF r.exc # NoExc THEN r.exc
             ELSE IF GetSchema(t) = <<>> THEN "UnsupportedContainerType"
             ELSE IF sql_filter_expression.raised THEN "TypeError"
             ELSE NoExc
  IN  /\ ast_node' = node
      /\ sql' = IF exc = NoExc THEN sql_filter_expression ELSE sql
      /\ gen' = IF exc = NoExc THEN Generator("created", t, 0, <<>>) ELSE gen
      /\ last' = Called("GetAttributeContainers", t, 0, exc, FALSE, 0, 0)
      /\ store' = r.s
      /\ file' = [exists |-> file.exists \/ r.s.connection,
                  db |-> Committed(r.s)]
      /\ UNCHANGED <<heap, held, logical, updates,
                     identifier_object, identifier_string, schema_vars, registry_vars>>

\* GetAttributeContainers(container_type, filter_expression): the schema
\* is looked up and the expression translated in the call; the generator
\* it returns has the translated text as the predicate of its query.  NoNode
\* is filter_expression=None.
GetAttributeContainersFiltered(t, node) ==
  LET schema == GetSchema(t)
      sql_filter_expression ==
        IF node = NoNode THEN NotTranslated ELSE PythonAST2SQL(node)
      exc == IF schema = <<>> THEN "UnsupportedContainerType"
             ELSE IF sql_filter_expression.raised THEN "TypeError"
             ELSE NoExc
  IN  /\ ast_node' = node
      /\ sql' = IF exc = NoExc THEN sql_filter_expression ELSE sql
      /\ gen' = IF exc = NoExc THEN Generator("created", t, 0, <<>>) ELSE gen
      /\ last' = Called("GetAttributeContainers", t, 0, exc, FALSE, 0, 0)
      /\ UNCHANGED <<store, file, heap, held, logical, updates,
                     identifier_object, identifier_string, schema_vars, registry_vars>>

\* next() on the generator: _GetAttributeContainersWithFilter runs to its
\* next yield.  The first next() flushes the type's list and runs the query.
\* SQLite leaves undefined whether a running query sees what its connection
\* changes after it started: the row fetched is the row as it was (fresh
\* FALSE) or as it is (fresh TRUE), and a row inserted since may be missed.
\* The query has the predicate sql as its WHERE clause, if there is one: the
\* row fetched is the next one the predicate is true of.
GenNext(fresh) ==
  LET t == gen.ctype
      r == IF gen.state = "created" THEN CommitWriteCache(store, t)
           ELSE Outcome(store, NoExc)
      exc == IF gen.state = "orphaned" THEN "ProgrammingError"
             ELSE IF r.exc # NoExc THEN r.exc
             ELSE IF gen.state = "running" THEN NoExc
             ELSE IF r.s.sequence_numbers[t] = 0 THEN "StopIteration"
             ELSE IF ~r.s.connection THEN "AttributeError"
             ELSE IF ~HasTable(r.s, t) THEN "StorageQueryFailed"
             ELSE IF sql # NotTranslated /\ ~SqlPrepares(sql.text, GetSchema(t))
             THEN "StorageQueryFailed"
             ELSE NoExc
      now == Rows(r.s, t)
      queried == IF gen.state = "created" THEN now ELSE gen.rows
      rows == IF fresh THEN now ELSE queried
      selected == {p \in (gen.pos + 1)..Len(rows) :
                     sql = NotTranslated \/ SqlWhere(sql.text, rows[p])}
      row == IF selected = {} THEN Len(rows) + 1
             ELSE CHOOSE p \in selected : \A q \in selected : p <= q
      h == Collect(heap, store.cache, {})
      obj == Alloc(h)
      container ==
        [CreateAttributeContainerFromRow(t, rows[row])
           EXCEPT !.ident = AttributeContainerIdentifier(t, row)]
      inserted == Len(now) - Len(Rows(store, t))
  IN  /\ gen.state \in {"created", "running", "orphaned"}
      /\ IF exc # NoExc \/ row > Len(rows)
         THEN Return(r.s, heap, held, NoGenerator,
                     Called("Next", t, gen.pos,
                            IF exc # NoExc THEN exc ELSE "StopIteration",
                            FALSE, Len(queried), inserted),
                     logical)
         ELSE Return(r.s, [h EXCEPT ![obj] = container], obj,
                     Generator("running", t, row, queried),
                     Called("Next", t, row - 1, NoExc, FALSE, Len(queried),
                            inserted),
                     logical)

Identifiers(t) ==
  {AttributeContainerIdentifier(t, n) : n \in 1..MaxRows}

\* The indexes a caller reads by: -1 and MaxRows - 1 name no row of a type
\* that holds fewer than MaxRows containers.
Indexes == (-1)..(MaxRows - 1)

(***************************************************************************)
(* The calls a caller makes on containers of the given types.              *)
(***************************************************************************)
Lifecycle ==
  \/ \E path \in Paths, read_only \in BOOLEAN : Open(path, read_only)
  \/ Close

Writes(types, limit) ==
  \E t \in types : \E attrs \in InputValues(t, Len(logical[t]) + 1) :
    AddNew(t, attrs, limit)

Rewrites(types) ==
  \/ AddHeld(MaxRows)
  \/ \E t \in types : \E attrs \in UpdateValues(t) : UpdateHeld(attrs)

Reads(types) ==
  \/ \E t \in types : \E index \in Indexes : GetByIndex(t, index)
  \/ \E t \in types : \E identifier \in Identifiers(t) :
       GetByIdentifier(t, identifier)

Counts(types) ==
  \/ \E t \in types : GetNumber(t)
  \/ \E t \in types : Has(t)

Iterations(types) ==
  \/ \E t \in types : GetAttributeContainers(t)
  \/ \E fresh \in BOOLEAN : GenNext(fresh)

\* One store on one file, through any number of sessions, with containers
\* of one type.
Next ==
  \/ Lifecycle
  \/ Writes({"event"}, MaxRows)
  \/ Rewrites({"event"})
  \/ Reads({"event"})
  \/ Counts({"event"})

Spec == Init /\ [][Next]_vars

\* One session with containers of two types, which compete for the read
\* cache.
NextCache ==
  \/ \E path \in Paths, read_only \in BOOLEAN : Open(path, read_only)
  \/ Writes({"event"}, MaxCrowdedRows)
  \/ Writes({"tag"}, MaxOtherRows)
  \/ \E t \in WritableTypes : \E index \in Indexes : GetByIndex(t, index)
  \/ \E t \in WritableTypes : GetNumber(t)

SpecCache == Init /\ [][NextCache]_vars

\* Any number of sessions with containers of two types.
NextSessions ==
  \/ Lifecycle
  \/ Writes({"event"}, MaxCrowdedRows)
  \/ Writes({"tag"}, MaxOtherRows)
  \/ \E t \in WritableTypes : GetNumber(t)

SpecSessions == Init /\ [][NextSessions]_vars

\* Iteration over the containers of one type, interleaved with writes.
NextIter ==
  \/ Lifecycle
  \/ Writes({"event"}, MaxRows)
  \/ \E attrs \in UpdateValues("event") : UpdateHeld(attrs)
  \/ GetNumber("event")
  \/ Iterations({"event"})

SpecIter == Init /\ [][NextIter]_vars

\* An iteration over the events, with calls on the tags between its steps:
\* writes (the second one flushes), an update, reads by index and counts.
BetweenSteps ==
  /\ gen.state = "running"
  /\ gen.ctype = "event"
  /\ \/ Writes({"tag"}, MaxOtherRows)
     \/ /\ held # NoObject
        /\ heap[held].ctype = "tag"
        /\ \E attrs \in UpdateValues("tag") : UpdateHeld(attrs)
     \/ \E index \in 0..(MaxOtherRows - 1) : GetByIndex("tag", index)
     \/ GetNumber("tag")

NextInterleaved ==
  \/ \E path \in Paths, read_only \in BOOLEAN : Open(path, read_only)
  \/ Writes({"event"}, MaxOtherRows)
  \/ Iterations({"event"})
  \/ BetweenSteps

SpecInterleaved == Init /\ [][NextInterleaved]_vars

\* Sessions with containers of two types and every call that flushes the
\* write-back buffer of one type or of all.
NextFlush ==
  \/ Lifecycle
  \/ Writes({"event"}, MaxOtherRows)
  \/ Writes({"tag"}, MaxCrowdedRows)
  \/ \E t \in WritableTypes : \E attrs \in UpdateValues(t) : UpdateHeld(attrs)
  \/ \E index \in 0..MaxCrowdedRows : GetByIndex("tag", index)
  \/ \E t \in WritableTypes : GetNumber(t)
  \/ Iterations({"event"})

SpecFlush == Init /\ [][NextFlush]_vars

\* The filter expressions a caller iterates with: none, the comparisons and
\* the expressions that are no and/or of comparisons.
Filters == {NoNode} \cup Comparisons \cup OtherExpressions

\* One session with events, and iterations with a filter over the events
\* and over the type that has no schema.
NextFiltered ==
  \/ \E path \in Paths, read_only \in BOOLEAN : Open(path, read_only)
  \/ Writes({"event"}, MaxOtherRows)
  \/ \E t \in {"event", "bare"} : \E node \in Filters :
       GetAttributeContainersFiltered(t, node)
  \/ \E fresh \in BOOLEAN : GenNext(fresh)

SpecFiltered == Init /\ [][NextFiltered]_vars

\* The caller makes a container of the type whose schema SerializeValue
\* refuses and adds it.  Open sets the counter from the rows again.
FailedWrites ==
  /\ store.sequence_numbers["note"] < MaxFailedWrites
  /\ \E attrs \in InputValues("note", 1) : AddNew("note", attrs, 1)

\* One store on one file: writes of events, writes that fail, and reads and
\* counts of both types.
NextFailedWrites ==
  \/ Lifecycle
  \/ Writes({"event"}, MaxOtherRows)
  \/ FailedWrites
  \/ \E t \in {"event", "note"} : \E index \in 0..1 : GetByIndex(t, index)
  \/ \E t \in {"event", "note"} : GetNumber(t)

SpecFailedWrites == Init /\ [][NextFailedWrites]_vars

(***************************************************************************)
(* Version negotiation: the store is constructed for a file that an        *)
(* earlier program left behind.                                            *)
(***************************************************************************)
StoredVersions ==
  {READ_COMPATIBLE_FORMAT_VERSION - 1, READ_COMPATIBLE_FORMAT_VERSION,
   FORMAT_VERSION, FORMAT_VERSION + 1}

\* A stored format version: a number, nothing, or no number.
VersionTexts == {FormatInt(v) : v \in StoredVersions} \cup {<<>>, <<"v", "1">>}

FormatTexts == {JSON, <<"x", "m", "l">>}

StoredMetadata ==
  {v \o f :
     v \in {<<>>} \cup {<<<<"format_version", text>>>> : text \in VersionTexts},
     f \in {<<>>} \cup {<<<<"serialization_format", text>>>> :
                          text \in FormatTexts}}

StoredFiles ==
  {AbsentFile, [exists |-> TRUE, db |-> EmptyDatabase]}
    \cup {[exists |-> TRUE,
           db |-> [EmptyDatabase EXCEPT
                     !.metadata = [exists |-> TRUE, rows |-> rows]]] :
            rows \in StoredMetadata}

InitMeta == \E stored \in StoredFiles : Constructed(stored, NoNode)

NextMeta ==
  \/ Lifecycle
  \/ Construct
  \/ CheckSupported
  \/ Writes({"event"}, MaxRowsMeta)
  \/ GetNumber("event")

SpecMeta == InitMeta /\ [][NextMeta]_vars

\* The files another program puts at the path: one whose metadata table is
\* empty, and none.
ReplacementFiles ==
  {stored \in StoredFiles : stored.db.metadata.rows = <<>>
                              /\ (stored.exists => stored.db.metadata.exists)}

\* Another program replaces the file at the path, while the store is
\* closed, by a file it left behind.
Replace ==
  /\ ~store.is_open
  /\ file' \in ReplacementFiles \ {file}
  /\ UNCHANGED <<store, heap, held, gen, last, logical, updates, ast_node,
                 sql, identifier_object, identifier_string, schema_vars,
                 registry_vars>>

\* Sessions of one store object on a file that other programs replace
\* between the sessions.
NextReplaced ==
  \/ Lifecycle
  \/ Replace
  \/ Writes({"event"}, MaxOtherRows)
  \/ GetNumber("event")

SpecReplaced == Init /\ [][NextReplaced]_vars

(***************************************************************************)
(* Translation of a filter expression.                                     *)
(***************************************************************************)
InitAST == \E node \in Expressions(MaxDepth) : Constructed(AbsentFile, node)

\* sql_filter_expression = PythonAST2SQL(expression_ast.body)
Translate ==
  /\ ast_node # NoNode
  /\ sql = NotTranslated
  /\ sql' = PythonAST2SQL(ast_node)
  /\ UNCHANGED <<store, file, heap, held, gen, last, logical, updates,
                 ast_node, identifier_object, identifier_string, schema_vars, registry_vars>>

NextAST == Translate

SpecAST == InitAST /\ [][NextAST]_vars

\* Translation of an expression of either sort.
InitASTAny ==
  \E node \in AnyExpressions(MaxDepth) : Constructed(AbsentFile, node)

SpecASTAny == InitASTAny /\ [][NextAST]_vars

(***************************************************************************)
(* Identifiers and their string representation.                            *)
(***************************************************************************)
\* The texts of at most n characters of an alphabet.
RECURSIVE Texts(_, _)
Texts(alphabet, n) ==
  IF n = 0 THEN {<<>>}
  ELSE LET shorter == Texts(alphabet, n - 1)
       IN  shorter \cup {Append(t, c) : t \in shorter, c \in alphabet}

IdentifierNames ==
  {None} \cup {StrV(t) : t \in Texts({"e", "."}, MaxNameLen)}

SequenceNumbers == {None} \cup {IntV(n) : n \in {-1, 0, 1, 12}}

IdentifierStrings ==
  {None} \cup {StrV(t) : t \in Texts({"e", ".", "1", "-"}, MaxStringLen)}

IdentifierObjects ==
  {AttributeContainerIdentifier(name, sequence_number) :
     name \in IdentifierNames, sequence_number \in SequenceNumbers}

InitIdentifier ==
  /\ identifier_object \in IdentifierObjects
  /\ identifier_string \in IdentifierStrings
  /\ NoAttribute
  /\ EmptyRegistry
  /\ ConstructedStore(AbsentFile, NoNode)

\* identifier_string = identifier.CopyToString()
CopyTo ==
  /\ identifier_string' = CopyToString(identifier_object)
  /\ last' = Called("CopyToString", "event", 0, NoExc, FALSE, 0, 0)
  /\ UNCHANGED <<store, file, heap, held, gen, logical, updates, ast_node,
                 sql, identifier_object, schema_vars, registry_vars>>

\* identifier.CopyFromString(identifier_string)
CopyFrom ==
  LET r == CopyFromString(identifier_object, identifier_string.s)
  IN  /\ identifier_string # None
      /\ identifier_object' = r.identifier
      /\ last' = Called("CopyFromString", "event", 0, r.exc, FALSE, 0, 0)
      /\ UNCHANGED <<store, file, heap, held, gen, logical, updates,
                     ast_node, sql, identifier_string, schema_vars, registry_vars>>

NextIdentifier == CopyTo \/ CopyFrom

SpecIdentifier == InitIdentifier /\ [][NextIdentifier]_vars

(***************************************************************************)
(* Serialization of attribute values.                                      *)
(***************************************************************************)
\* A data type that is not declared.
OtherDataTypes == {"complex"}

\* The runtime values of a data type, None among them.
RuntimeValues(type) ==
  {None} \cup
    IF type = "bool" THEN {BoolV(b) : b \in BOOLEAN}
    ELSE IF type \in {"int", "timestamp"} THEN {IntV(n) : n \in {-1, 0, 1, 12}}
    ELSE IF type = "str" THEN {StrV(t) : t \in Texts({"e", "."}, MaxNameLen)}
    ELSE IF type = "AttributeContainerIdentifier"
    THEN {IdV(id) : id \in IdentifierObjects}
    ELSE {BoolV(TRUE), IntV(1), StrV(<<"e">>)}

\* The values a column of a data type holds, NULL among them.
StoredValues(type) ==
  {None} \cup
    IF type \in {"bool", "int", "timestamp"} THEN {IntV(n) : n \in {0, 1}}
    ELSE IF type = "AttributeContainerIdentifier"
    THEN IdentifierStrings \ {None}
    ELSE {StrV(<<"e">>)}

InitSchema ==
  /\ attribute_type \in DataTypes \cup OtherDataTypes
  /\ attribute_value \in RuntimeValues(attribute_type)
  /\ row_value \in StoredValues(attribute_type)
  /\ identifier_object = NoIdentifier
  /\ identifier_string = None
  /\ EmptyRegistry
  /\ ConstructedStore(AbsentFile, NoNode)

\* The exception a call raised (NoExc: none), from what stands for its value.
Raises(value) ==
  IF value # None /\ value.k = "exception" THEN value.exc ELSE NoExc

\* row_value = SerializeValue(attribute_type, attribute_value)
Serialize ==
  LET value == SerializeValue(attribute_type, attribute_value)
  IN  /\ row_value' = IF Raises(value) # NoExc THEN row_value ELSE value
      /\ last' = Called("SerializeValue", "event", 0, Raises(value), FALSE,
                        0, 0)
      /\ UNCHANGED <<store, file, heap, held, gen, logical, updates,
                     ast_node, sql, identifier_object, identifier_string,
                     attribute_type, attribute_value, registry_vars>>

\* attribute_value = DeserializeValue(attribute_type, row_value)
Deserialize ==
  LET value == DeserializeValue(attribute_type, row_value)
  IN  /\ attribute_value' =
           IF Raises(value) # NoExc THEN attribute_value ELSE value
      /\ last' = Called("DeserializeValue", "event", 0, Raises(value), FALSE,
                        0, 0)
      /\ UNCHANGED <<store, file, heap, held, gen, logical, updates,
                     ast_node, sql, identifier_object, identifier_string,
                     attribute_type, row_value, registry_vars>>

NextSchema == Serialize \/ Deserialize

SpecSchema == InitSchema /\ [][NextSchema]_vars

(***************************************************************************)
(* AttributeContainersManager (containers/manager.py).  A container type   *)
(* is a sequence of characters; a class is a record of its name, its       *)
(* CONTAINER_TYPE and its SCHEMA.                                          *)
(***************************************************************************)
\* str.lower() of one character.
LowerChar(c) ==
  IF c = "E" THEN "e" ELSE IF c = "T" THEN "t" ELSE c

\* str.lower()
Lower(text) == [i \in 1..Len(text) |-> LowerChar(text[i])]

\* The container classes of the program: two whose container types differ
\* in case only, one whose type has an upper-case letter and one in lower
\* case.
Classes ==
  {[name |-> "Event", CONTAINER_TYPE |-> <<"e">>, SCHEMA |-> [a |-> "int"]],
   [name |-> "LegacyEvent", CONTAINER_TYPE |-> <<"E">>,
    SCHEMA |-> [a |-> "str"]],
   [name |-> "Tag", CONTAINER_TYPE |-> <<"T", "t">>,
    SCHEMA |-> [flag |-> "bool"]],
   [name |-> "Note", CONTAINER_TYPE |-> <<"n">>, SCHEMA |-> [b |-> "str"]]}

\* container_class(): an instance of the class.
Instance(class) == [instance_of |-> class.name]

\* RegisterAttributeContainer(attribute_container_class)
RegisterAttributeContainer(class) ==
  LET container_type == Lower(class.CONTAINER_TYPE)
      refused == container_type \in DOMAIN attribute_container_classes
  IN  /\ attribute_container_classes' =
           IF refused THEN attribute_container_classes
           ELSE [key \in DOMAIN attribute_container_classes
                          \cup {container_type} |->
                   IF key = container_type THEN class
                   ELSE attribute_container_classes[key]]
      /\ registered' = IF refused THEN registered ELSE registered \cup {class}
      /\ manager_call' =
           [op |-> "RegisterAttributeContainer", argument |-> class,
            exc |-> IF refused THEN "KeyError" ELSE NoExc, result |-> <<>>]
      /\ UNCHANGED <<store, file, heap, held, gen, last, logical, updates,
                     ast_node, sql, identifier_object, identifier_string,
                     schema_vars>>

\* DeregisterAttributeContainer(attribute_container_class)
DeregisterAttributeContainer(class) ==
  LET container_type == Lower(class.CONTAINER_TYPE)
      refused == container_type \notin DOMAIN attribute_container_classes
  IN  /\ attribute_container_classes' =
           IF refused THEN attribute_container_classes
           ELSE [key \in DOMAIN attribute_container_classes
                          \ {container_type} |->
                   attribute_container_classes[key]]
      /\ registered' = IF refused THEN registered ELSE registered \ {class}
      /\ manager_call' =
           [op |-> "DeregisterAttributeContainer", argument |-> class,
            exc |-> IF refused THEN "KeyError" ELSE NoExc, result |-> <<>>]
      /\ UNCHANGED <<store, file, heap, held, gen, last, logical, updates,
                     ast_node, sql, identifier_object, identifier_string,
                     schema_vars>>

\* CreateAttributeContainer(container_type) and GetSchema(container_type):
\* the class is looked up by the type as it is given.
Lookup(op, container_type) ==
  LET found == container_type \in DOMAIN attribute_container_classes
      container_class == attribute_container_classes[container_type]
  IN  /\ manager_call' =
           [op |-> op, argument |-> container_type,
            exc |-> IF found THEN NoExc ELSE "ValueError",
            result |-> IF ~found THEN <<>>
                       ELSE IF op = "GetSchema" THEN container_class.SCHEMA
                       ELSE Instance(container_class)]
      /\ UNCHANGED <<store, file, heap, held, gen, last, logical, updates,
                     ast_node, sql, identifier_object, identifier_string,
                     schema_vars, attribute_container_classes, registered>>

\* The program registers and deregisters its classes and asks for
\* containers and schemas by their container types.
NextRegistry ==
  \/ \E class \in Classes : RegisterAttributeContainer(class)
  \/ \E class \in Classes : DeregisterAttributeContainer(class)
  \/ \E class \in Classes :
       Lookup("CreateAttributeContainer", class.CONTAINER_TYPE)
  \/ \E class \in Classes : Lookup("GetSchema", class.CONTAINER_TYPE)

SpecRegistry == Init /\ [][NextRegistry]_vars

(***************************************************************************)
(* Properties.                                                             *)
(***************************************************************************)
\* The rows of a type's list that wait for a flush, as the rows the flush
\* will insert.
BufferedRows(s, t) ==
  LET write_cache == s.write_cache[t]
  IN  IF write_cache = <<>> THEN <<>>
      ELSE [i \in 1..(Len(write_cache) - 1) |->
              InsertedRow(GetSchema(t), write_cache[1].items,
                          write_cache[i + 1].items)]

\* The rows of a type, stored or still buffered, by position.
AllRows(s, t) == Rows(s, t) \o BufferedRows(s, t)

\* The schema attribute values of the container a row holds.
ValuesOfRow(t, row) == CreateAttributeContainerFromRow(t, row).attrs

ReadOps == {"GetByIndex", "GetByIdentifier"}

\* C1: a write of a new container flushes the type's list automatically
\* exactly when it brings the list to MAXIMUM_WRITE_CACHE_SIZE pending rows:
\* the flush then inserts that many rows, no write flushes fewer, and no
\* list is left holding that many.
AutoFlushAtThreshold ==
  /\ \A t \in ContainerTypes : Pending(store, t) < MAXIMUM_WRITE_CACHE_SIZE
  /\ (last.op = "Add" /\ last.exc = NoExc /\ last.inserted > 0)
       => last.inserted = MAXIMUM_WRITE_CACHE_SIZE

\* C2: while the store is open, every read cache entry (type, index) holds
\* the schema attribute values of the row of that type at position
\* index + 1, stored or still buffered.
CacheMatchesRows ==
  store.is_open =>
    \A k \in 1..Len(store.cache) :
      LET t == store.cache[k].key[1]
          n == store.cache[k].key[2] + 1
      IN  /\ n \in 1..Len(AllRows(store, t))
          /\ heap[store.cache[k].obj].attrs = ValuesOfRow(t, AllRows(store, t)[n])

Example ==
  BoolOp("And", <<Compare(Name("a"), <<"Eq">>, <<Constant(IntV(1))>>),
                  Compare(Name("b"), <<"Eq">>, <<Constant(StrV("x"))>>)>>)

\* C3: the predicate PythonAST2SQL emits for a supported expression, read
\* with AND binding tighter than OR, has the truth value of the expression
\* under every assignment of attribute values; a == 1 and b == "x" becomes
\* a = 1 AND b = "x".
TranslationEquivalent ==
  sql # NotTranslated =>
    /\ ~sql.raised
    /\ \A namespace \in Namespaces :
         SqlWhere(sql.text, namespace) = Evaluate(ast_node, namespace)
    /\ ast_node = Example =>
         sql.text = <<<<"a">>, EQ, <<"1">>, AND, <<"b">>, EQ, <<"\"", "x", "\"">>>>

\* C4: a read, count, existence check, write or update on a store that is
\* not open fails with NotOpen, and a read then returns no container.
ClosedStoreRefuses ==
  (~store.is_open
     /\ last.op \in ReadOps \cup {"GetNumber", "Has", "Add", "Update"})
    => /\ last.exc = "NotOpen"
       /\ last.op \in ReadOps => held = NoObject

\* C5: while the store is open read-write and no container has been
\* updated, a read by the identifier (or index) of a container written as
\* new returns a container with the values written and that identifier.
ReadBackAsWritten ==
  (store.is_open /\ ~store.read_only /\ updates = 0
     /\ last.op \in ReadOps
     /\ last.index >= 0 /\ last.index < Len(logical[last.ctype]))
    => /\ last.exc = NoExc
       /\ held # NoObject
       /\ heap[held].attrs = logical[last.ctype][last.index + 1]
       /\ heap[held].ident =
            AttributeContainerIdentifier(last.ctype, last.index + 1)

\* The last call was a read by index of a container whose row was still
\* buffered when the call was made.
ReadOfBuffered ==
  /\ last.op = "GetByIndex"
  /\ last.index + 1 > Len(Rows(store, last.ctype)) - last.inserted
  /\ last.index + 1 <= Len(AllRows(store, last.ctype))

\* A count returns the number of containers of the type written so far.
CountsWritten ==
  (last.op = "GetNumber" /\ last.exc = NoExc)
    => last.count = Len(logical[last.ctype])

\* C6, as stated: a read by index of a container whose row is still buffered
\* is served from the read cache, returns the written values and flushes
\* nothing; a count returns the number of containers written.
BufferedReadFromCache ==
  /\ ReadOfBuffered
       => /\ last.from_cache
          /\ last.inserted = 0
          /\ held # NoObject
          /\ heap[held].attrs = logical[last.ctype][last.index + 1]
  /\ CountsWritten

\* C6, amended: a read by index of a container whose row is still buffered
\* returns the written values; it is served from the read cache, flushing
\* nothing, when the entry is still there, and otherwise flushes the type's
\* list and takes the row from storage; a count returns the number of
\* containers written.
BufferedReadReturnsWritten ==
  /\ ReadOfBuffered
       => /\ last.exc = NoExc
          /\ held # NoObject
          /\ heap[held].attrs = logical[last.ctype][last.index + 1]
          /\ last.from_cache <=> last.inserted = 0
  /\ CountsWritten

\* A read of a buffered container that the read cache no longer held: it
\* flushed the list.
BufferedReadAfterEviction ==
  /\ ReadOfBuffered
  /\ ~last.from_cache
  /\ last.inserted > 0
  /\ held # NoObject

\* C7: the k-th container an iteration yields carries sequence number k and
\* the values of the k-th container written (when none was updated); the
\* query of an iteration finds every container written before it, buffered
\* or not, and the iteration ends only after it has yielded all of them.
IterationInWriteOrder ==
  /\ (last.op = "Next" /\ last.exc = NoExc)
       => /\ held # NoObject
          /\ heap[held].ident =
               AttributeContainerIdentifier(last.ctype, last.index + 1)
          /\ last.index + 1 <= Len(logical[last.ctype])
          /\ updates = 0 =>
               heap[held].attrs = logical[last.ctype][last.index + 1]
          /\ last.index = 0 => last.count = Len(logical[last.ctype])
  /\ (last.op = "Next" /\ last.exc = "StopIteration")
       => /\ last.index >= last.count
          /\ last.index = 0 => last.count = Len(logical[last.ctype])

\* An iteration has yielded the last of MaxRows containers, after an
\* automatic flush and its own forced flush.
IterationYieldedAll ==
  /\ last.op = "Next"
  /\ last.exc = NoExc
  /\ last.index + 1 = MaxRows
  /\ Len(logical[last.ctype]) = MaxRows
  /\ updates = 0

\* The stored format version of a file.
StoredVersion(f) == MetadataGet(f.db.metadata.rows, "format_version")

\* A file with a metadata table, the supported serialization format and a
\* numeric format version.
Versioned(f) ==
  /\ f.exists
  /\ f.db.metadata.exists
  /\ MetadataGet(f.db.metadata.rows, "serialization_format") =
       [found |-> TRUE, text |-> JSON]
  /\ StoredVersion(f).found
  /\ IsNumeric(StoredVersion(f).text)

\* C8, as stated: on a closed store and a versioned file, Open read-write
\* fails with TooOldToWrite below the append floor; Open fails in either
\* mode with TooOldToRead below the read floor and with TooNewToRead above
\* the current version; Open read-only succeeds in between.
VersionGating ==
  [][\A read_only \in BOOLEAN :
       (~store.is_open /\ Versioned(file) /\ Open(Path, read_only))
         => LET version == ParseInt(StoredVersion(file).text)
            IN  /\ (~read_only /\ version < APPEND_COMPATIBLE_FORMAT_VERSION)
                     => last'.exc = "TooOldToWrite"
                /\ version < READ_COMPATIBLE_FORMAT_VERSION
                     => last'.exc = "TooOldToRead"
                /\ version > FORMAT_VERSION => last'.exc = "TooNewToRead"
                /\ (read_only /\ version >= READ_COMPATIBLE_FORMAT_VERSION
                      /\ version <= FORMAT_VERSION)
                     => last'.exc = NoExc /\ store'.is_open]_vars

\* C8, amended: Open read-write compares the version with the append floor
\* first, so below the append floor it fails with TooOldToWrite also when
\* the version is below the read floor; TooOldToRead is what Open read-only
\* raises below the read floor (and Open read-write for a version at or
\* above the append floor).
VersionGatingAppendFirst ==
  [][\A read_only \in BOOLEAN :
       (~store.is_open /\ Versioned(file) /\ Open(Path, read_only))
         => LET version == ParseInt(StoredVersion(file).text)
            IN  /\ (~read_only /\ version < APPEND_COMPATIBLE_FORMAT_VERSION)
                     => last'.exc = "TooOldToWrite"
                /\ ((read_only \/ version >= APPEND_COMPATIBLE_FORMAT_VERSION)
                      /\ version < READ_COMPATIBLE_FORMAT_VERSION)
                     => last'.exc = "TooOldToRead"
                /\ version > FORMAT_VERSION => last'.exc = "TooNewToRead"
                /\ (read_only /\ version >= READ_COMPATIBLE_FORMAT_VERSION
                      /\ version <= FORMAT_VERSION)
                     => last'.exc = NoExc /\ store'.is_open]_vars

\* Open read-write was refused with TooOldToWrite for a version that is
\* below the read floor as well.
TooOldToWriteBelowReadFloor ==
  /\ last.op = "Open"
  /\ last.exc = "TooOldToWrite"
  /\ ~store.read_only
  /\ Versioned(file)
  /\ ParseInt(StoredVersion(file).text) < READ_COMPATIBLE_FORMAT_VERSION

\* C9: once a file has a metadata table, a step changes the persisted
\* metadata only if it is a successful Open read-write of a store whose
\* version is upgrade-eligible, and then only the format version, which it
\* sets to the current one; the format version never decreases and the
\* serialization format never changes.
MetadataOnlyAdvances ==
  [][file.db.metadata.exists =>
       \/ file'.db.metadata = file.db.metadata
       \/ /\ ~store.is_open
          /\ Open(Path, FALSE)
          /\ last'.exc = NoExc
          /\ Versioned(file)
          /\ ParseInt(StoredVersion(file).text) >=
               UPGRADE_COMPATIBLE_FORMAT_VERSION
          /\ ParseInt(StoredVersion(file).text) <= FORMAT_VERSION
          /\ file'.db.metadata.exists
          /\ file'.db.metadata.rows =
               [i \in 1..Len(file.db.metadata.rows) |->
                  IF file.db.metadata.rows[i][1] = "format_version"
                  THEN <<"format_version", FormatInt(FORMAT_VERSION)>>
                  ELSE file.db.metadata.rows[i]]]_vars

\* An Open read-write has advanced the stored version of an older file to
\* the current one.
VersionAdvanced ==
  /\ last.op = "Open"
  /\ last.exc = NoExc
  /\ ~store.read_only
  /\ store.format_version < FORMAT_VERSION
  /\ StoredVersion(file).text = FormatInt(FORMAT_VERSION)

\* C10: on a closed store and a file without metadata table, Open read-only
\* fails and leaves the file as it is; Open read-write succeeds and leaves
\* persisted a metadata table with the current format version and the
\* supported serialization format, and no container row besides; no
\* connection holds a container row, stored or buffered, for a file whose
\* metadata table is not persisted.
MetadataCreatedFirst ==
  [][/\ \A read_only \in BOOLEAN :
          (~store.is_open /\ ~file.db.metadata.exists /\ Open(Path, read_only))
            => IF read_only
               THEN last'.exc # NoExc /\ file' = file
               ELSE /\ last'.exc = NoExc
                    /\ store'.is_open
                    /\ file'.exists
                    /\ file'.db.metadata =
                         [exists |-> TRUE,
                          rows |-> <<<<"format_version",
                                       FormatInt(FORMAT_VERSION)>>,
                                     <<"serialization_format", JSON>>>>]
                    /\ file'.db.containers = file.db.containers
     /\ (store'.connection
           /\ \E t \in ContainerTypes : AllRows(store', t) # <<>>)
          => file'.db.metadata.exists]_vars

\* An Open read-write has created the metadata table.
MetadataCreated ==
  /\ last.op = "Open"
  /\ last.exc = NoExc
  /\ last.inserted = 2
  /\ ~store.read_only
  /\ file.db.metadata.exists

\* C11: CheckSupportedFormat raises nothing and leaves the file as it is; it
\* returns False when no file exists, when the file has no metadata table
\* and when the format version is missing or is no number.
ProbeNeverRaises ==
  [][CheckSupported =>
       /\ last'.exc = NoExc
       /\ file' = file
       /\ (~file.exists \/ ~file.db.metadata.exists
             \/ ~StoredVersion(file).found
             \/ ~IsNumeric(StoredVersion(file).text))
            => last'.count = 0]_vars

\* The node is one the filter language has: and/or, a single == or !=
\* comparison, a name, a string or number literal, and so are the nodes
\* under it.
RECURSIVE Supported(_)
Supported(n) ==
  IF n.node = "BoolOp"
  THEN n.op \in {"And", "Or"}
         /\ \A i \in 1..Len(n.values) : Supported(n.values[i])
  ELSE IF n.node = "Compare"
  THEN /\ Len(n.ops) = 1
       /\ Len(n.comparators) = 1
       /\ n.ops[1] \in {"Eq", "NotEq"}
       /\ Supported(n.left)
       /\ Supported(n.comparators[1])
  ELSE IF n.node = "Constant" THEN n.value.k \in {"str", "int"}
  ELSE n.node = "Name"

\* C12: PythonAST2SQL raises TypeError, and returns no text, for every
\* expression that holds a node the filter language does not have.
UnsupportedRaises ==
  (sql # NotTranslated /\ ~Supported(ast_node)) => sql = Raised

\* C13: a container written as new receives the sequence number n + 1, with
\* n the number of containers of its type the store holds already, stored
\* or buffered, in this session or an earlier one; that is the _identifier
\* of the row that holds it.
SequenceNumbersContinue ==
  (last.op = "Add" /\ last.exc = NoExc)
    => /\ held # NoObject
       /\ heap[held].ident =
            AttributeContainerIdentifier(
              last.ctype, Len(AllRows(store, last.ctype)))
       /\ last.index + 1 = Len(AllRows(store, last.ctype))

\* The number of containers of a type the store holds: through a connection
\* the rows stored and buffered, without one the rows of the file.
NumberHeld(t) ==
  IF store.connection THEN Len(AllRows(store, t))
  ELSE Len(file.db.containers[t].rows)

\* C14: no step lowers the number of containers of a type the store holds,
\* a successful write of a new container raises it by exactly one, and a
\* count returns it; so successive counts never decrease.
CountNeverDecreases ==
  [][\A t \in ContainerTypes :
       /\ NumberHeld(t)' >= NumberHeld(t)
       /\ Len(logical'[t]) > Len(logical[t]) => NumberHeld(t)' = NumberHeld(t) + 1
       /\ (GetNumber(t) /\ last'.exc = NoExc)
            => last'.count = NumberHeld(t) /\ NumberHeld(t)' = NumberHeld(t)]_vars

\* A count in a later, read-only session returns the number of containers
\* written in the sessions before.
CountAfterReopen ==
  /\ last.op = "GetNumber"
  /\ last.exc = NoExc
  /\ store.read_only
  /\ last.count = MaxRows

\* C15: Close on an open store leaves the store closed and without
\* connection, and the file holding, committed, every row that was stored
\* or buffered, of every type; Close on a store that is not open fails with
\* NotOpen and changes nothing.
CloseFlushesAll ==
  [][Close =>
       IF store.is_open
       THEN /\ last'.exc = NoExc
            /\ ~store'.is_open
            /\ ~store'.connection
            /\ \A t \in ContainerTypes :
                 /\ store'.write_cache[t] = <<>>
                 /\ file'.db.containers[t].rows = AllRows(store, t)
       ELSE /\ last'.exc = "NotOpen"
            /\ store' = store
            /\ file' = file]_vars

\* A Close has flushed a pending row of each of the two types.
ClosedWithPendingRows ==
  /\ last.op = "Close"
  /\ last.exc = NoExc
  /\ last.inserted = 2
  /\ \A t \in WritableTypes : Len(file.db.containers[t].rows) = 1

\* C16: after a successful Open, and after a Close, the store holds no read
\* cache entry and no pending row.
CachesEmptyBetweenSessions ==
  (last.op \in {"Open", "Close"} /\ last.exc = NoExc)
    => /\ store.cache = <<>>
       /\ \A t \in ContainerTypes : Pending(store, t) = 0

\* C17: Open on an open store fails with AlreadyOpen, Open with no path on a
\* closed store fails with MissingPath, and both leave the store object (its
\* open flag, read-only flag, connection, write cache, read cache and
\* sequence numbers) and the file as they were.
RefusedOpenChangesNothing ==
  [][\A path \in Paths, read_only \in BOOLEAN :
       Open(path, read_only)
         => /\ store.is_open
                 => (last'.exc = "AlreadyOpen" /\ store' = store /\ file' = file)
            /\ (~store.is_open /\ path = NoPath)
                 => (last'.exc = "MissingPath" /\ store' = store /\ file' = file)]_vars

\* Open was refused on an open store that holds a pending row and a cached
\* container.
RefusedOpenWithPendingRows ==
  /\ last.op = "Open"
  /\ last.exc = "AlreadyOpen"
  /\ store.is_open
  /\ ~store.read_only
  /\ store.cache # <<>>
  /\ Pending(store, "event") > 0

\* C18: while the store is open read-only, a write of a new container and an
\* update are refused, and no step that starts or ends in a read-only session
\* (Open, a read, a count, an iteration, a refused write, Close) changes what
\* the file holds.
ReadOnlyChangesNothing ==
  [][/\ ((store.is_open /\ store.read_only)
            \/ (store'.is_open /\ store'.read_only))
         => file' = file
     /\ (store.is_open /\ store.read_only /\ last'.op \in {"Add", "Update"})
         => (last'.exc = "ReadOnly" /\ store' = store)]_vars

\* An update was refused in a read-only session on a file that holds rows.
RefusedUpdateReadOnly ==
  /\ last.op = "Update"
  /\ last.exc = "ReadOnly"
  /\ store.is_open
  /\ store.read_only
  /\ Len(file.db.containers["event"].rows) = MaxRows

\* The keys of the read cache, the most recently used one first.
CacheKeys(s) == [k \in 1..Len(s.cache) |-> s.cache[k].key]

Without(keys, key) == SelectSeq(keys, LAMBDA k : k # key)

\* C19: the read cache never holds more than MAXIMUM_CACHED_CONTAINERS
\* entries.  A write of a new container and a read that misses put their key
\* in front, a read that hits moves its key to the front, and these are the
\* only changes of the order: the keys are in the order of their last use.
\* Only an insertion that finds the cache full drops an entry, and it drops
\* the last one, the least recently used.
CacheIsLeastRecentlyUsed ==
  [][LET keys == CacheKeys(store)
         key == <<last'.ctype, last'.index>>
         full == Len(keys) >= MAXIMUM_CACHED_CONTAINERS
         kept == IF full /\ ~last'.from_cache
                 THEN SubSeq(keys, 1, Len(keys) - 1) ELSE keys
     IN  /\ Len(CacheKeys(store')) <= MAXIMUM_CACHED_CONTAINERS
         /\ CacheKeys(store') # keys
               => /\ last'.op \in {"Add", "GetByIndex", "GetByIdentifier"}
                  /\ CacheKeys(store') = <<key>> \o Without(kept, key)
         /\ (last'.exc = NoExc
               /\ (last'.op = "Add" \/ last'.from_cache))
               => CacheKeys(store')[1] = key]_vars

\* The first event was evicted as the least recently used entry, and a read
\* that hit the first tag then moved it in front of the second tag.
HitAfterEviction ==
  /\ last.op = "GetByIndex"
  /\ last.exc = NoExc
  /\ last.from_cache
  /\ Len(logical["event"]) = 1
  /\ CacheKeys(store) = << <<"tag", 0>>, <<"tag", 1>> >>

\* C20: an update that succeeds leaves no row of its type pending: the rows
\* that were buffered are inserted first, after the stored ones and in the
\* order they were written, so that every other row keeps its sequence number
\* and its values, and the row of the updated container, also when it was
\* still buffered, holds the updated values when it is read from storage.
UpdateAfterPendingRows ==
  [][(last'.op = "Update" /\ last'.exc = NoExc)
       => LET t == last'.ctype
              n == last'.index + 1
              before == AllRows(store, t)
              after == Rows(store', t)
          IN  /\ Pending(store', t) = 0
              /\ Len(after) = Len(before)
              /\ \A i \in 1..Len(after) :
                    IF i = n
                    THEN ValuesOfRow(t, after[i]) = heap'[held'].attrs
                    ELSE after[i] = before[i]]_vars

\* The container updated was the last one written and its insert was still
\* buffered: the update flushed it and then changed its row.
UpdatedBufferedRow ==
  /\ last.op = "Update"
  /\ last.exc = NoExc
  /\ last.inserted = 1
  /\ last.index + 1 = Len(Rows(store, "event"))
  /\ ValuesOfRow("event", Rows(store, "event")[last.index + 1])
       \in UpdateValues("event")

SequencePart(text) ==
  LET at == CHOOSE i \in 1..Len(text) :
              text[i] = "." /\ \A j \in 1..(i - 1) : text[j] # "."
  IN  SubSeq(text, at + 1, Len(text))

\* C22: CopyToString returns nothing exactly when the name or the sequence
\* number is unset; CopyFromString of the string CopyToString just returned
\* raises nothing and leaves the identifier with the same name and sequence
\* number; CopyFromString of a string with no separator, or whose part after
\* the separator is no number, raises ValueError.
IdentifierRoundTrip ==
  [][/\ last'.op = "CopyToString"
          => (identifier_string' = None
                <=> (identifier_object.name = None
                       \/ identifier_object.sequence_number = None))
     /\ (last.op = "CopyToString" /\ identifier_string # None
          /\ last'.op = "CopyFromString")
          => (last'.exc = NoExc /\ identifier_object' = identifier_object)
     /\ (last'.op = "CopyFromString"
          /\ \/ \A i \in 1..Len(identifier_string.s) :
                  identifier_string.s[i] # "."
             \/ ~IsNumeric(SequencePart(identifier_string.s)))
          => last'.exc = "ValueError"]_vars

\* C23: on an open store, a read by an index that is negative, or not less
\* than the number of containers of the type (stored or buffered), raises
\* nothing, returns no container and leaves the read cache as it was.
ReadOfNoRowFindsNothing ==
  [][(last'.op = "GetByIndex" /\ store.is_open
      /\ (last'.index < 0
            \/ last'.index >= Len(AllRows(store, last'.ctype))))
       => /\ last'.exc = NoExc
          /\ held' = NoObject
          /\ ~last'.from_cache
          /\ CacheKeys(store') = CacheKeys(store)]_vars

\* A read by the index just past the last container of a type found
\* nothing, after it flushed the type's pending row.
ReadPastLastRow ==
  /\ last.op = "GetByIndex"
  /\ last.exc = NoExc
  /\ held = NoObject
  /\ last.index = Len(Rows(store, last.ctype))
  /\ last.inserted > 0
  /\ store.cache # <<>>

\* C24: for a declared data type, SerializeValue stores a bool as 0 or 1, an
\* identifier as the string CopyToString gives, and any other value as it
\* is; DeserializeValue of what SerializeValue just returned raises nothing
\* and returns the value that was serialized; None passes through both; for
\* a data type that is not declared both raise UnsupportedDataType.
SerializationRoundTrip ==
  [][/\ (last'.op = "SerializeValue" /\ HasDataType(attribute_type))
          => /\ last'.exc = NoExc
             /\ row_value' =
                  IF attribute_value = None THEN None
                  ELSE IF attribute_type = "bool"
                  THEN IntV(IF attribute_value.b THEN 1 ELSE 0)
                  ELSE IF attribute_type = "AttributeContainerIdentifier"
                  THEN CopyToString(attribute_value.id)
                  ELSE attribute_value
     /\ (last.op = "SerializeValue" /\ last.exc = NoExc
          /\ last'.op = "DeserializeValue")
          => (last'.exc = NoExc /\ attribute_value' = attribute_value)
     /\ (last'.op = "DeserializeValue" /\ HasDataType(attribute_type)
          /\ row_value = None)
          => (last'.exc = NoExc /\ attribute_value' = None)
     /\ (last'.op \in {"SerializeValue", "DeserializeValue"}
          /\ ~HasDataType(attribute_type))
          => last'.exc = "UnsupportedDataType"]_vars

\* C25: an Open that raised while it negotiated the metadata leaves the
\* store closed: the Open that follows is not refused with AlreadyOpen, and a
\* write that follows is refused with NotOpen.
FailedOpenLeavesClosed ==
  [][(last.op = "Open" /\ last.exc \notin {NoExc, "AlreadyOpen"})
       => /\ ~store.is_open
          /\ last'.op = "Open" => last'.exc # "AlreadyOpen"
          /\ last'.op = "Add" => last'.exc = "NotOpen"]_vars

\* C26: an AddAttributeContainer that raised left the sequence counters, the
\* write-back buffers and the read cache as they were, and one that raised
\* while it serialized the values left the container with the identifier it
\* had.
FailedWriteChangesNothing ==
  [][(last'.op = "Add" /\ last'.exc # NoExc)
       => /\ store'.sequence_numbers = store.sequence_numbers
          /\ store'.write_cache = store.write_cache
          /\ CacheKeys(store') = CacheKeys(store)
          /\ last'.exc = "UnsupportedDataType"
               => heap'[held'].ident =
                    AttributeContainerIdentifier(
                      last'.ctype, ProvisionalSequenceNumber)]_vars

\* C27: the container a read by index i of type t returned carries the
\* identifier (t, i + 1), from the read cache or from storage.
ReadCarriesIdentifierOfIndex ==
  (last.op = "GetByIndex" /\ last.exc = NoExc /\ held # NoObject)
    => heap[held].ident =
         AttributeContainerIdentifier(last.ctype, last.index + 1)

\* C28: an UpdateAttributeContainer of a container of type t with the
\* sequence number n leaves the number of containers of t, every row of t
\* but the row n, the rows and the write-back buffers of the other types,
\* the sequence counters and the indexes the read cache holds as they were;
\* one that raised nothing has left no row of t pending, and the row n,
\* when there is one, holds the container's values.
UpdateChangesOneRow ==
  [][last'.op = "Update"
       => LET t == last'.ctype
              n == last'.index + 1
          IN  /\ Len(AllRows(store', t)) = Len(AllRows(store, t))
              /\ \A i \in 1..Len(AllRows(store, t)) :
                   i # n => AllRows(store', t)[i] = AllRows(store, t)[i]
              /\ \A u \in ContainerTypes \ {t} :
                   /\ Rows(store', u) = Rows(store, u)
                   /\ store'.write_cache[u] = store.write_cache[u]
              /\ store'.sequence_numbers = store.sequence_numbers
              /\ CacheKeys(store') = CacheKeys(store)
              /\ last'.exc = NoExc
                   => /\ BufferedRows(store', t) = <<>>
                      /\ n \in 1..Len(Rows(store', t))
                           => ValuesOfRow(t, Rows(store', t)[n])
                                = heap'[held'].attrs]_vars

\* An update of one of two stored tags, with an event pending in its
\* write-back buffer, was done.
UpdatedOneOfTwoRows ==
  /\ last.op = "Update"
  /\ last.exc = NoExc
  /\ last.ctype = "tag"
  /\ Len(Rows(store, "tag")) = 2
  /\ ValuesOfRow("tag", Rows(store, "tag")[1])
       # ValuesOfRow("tag", Rows(store, "tag")[2])
  /\ store.write_cache["event"] # <<>>

\* The step is a call that force-flushes the write-back buffer of the type
\* last'.ctype: a read by index that missed the read cache, a count, an
\* update that was not refused, or the first next() of an iteration.
ForcesFlush ==
  \/ last'.op \in {"GetByIndex", "GetNumber"} /\ ~last'.from_cache
  \/ last'.op = "Update" /\ last'.exc \notin {"NotOpen", "ReadOnly"}
  \/ last'.op = "Next" /\ gen.state = "created"

\* C29: a call that force-flushes the buffer of a type appends all the
\* pending rows of the type to its table in one insert, in the order they
\* were submitted, removes the buffer that held them, leaves no row of the
\* type pending and leaves the buffer of every other type as it was; a Close
\* leaves no buffer, and the file holds the rows of every type, the pending
\* ones after the stored ones.
ForcedFlushInsertsPendingRows ==
  [][/\ ForcesFlush
          => LET t == last'.ctype
                 pending == BufferedRows(store, t)
                 n == IF last'.op = "Update" THEN last'.index + 1 ELSE 0
             IN  /\ Len(Rows(store', t)) = Len(AllRows(store, t))
                 /\ \A i \in 1..Len(AllRows(store, t)) :
                      i # n => Rows(store', t)[i] = AllRows(store, t)[i]
                 /\ last'.inserted = Len(pending)
                 /\ BufferedRows(store', t) = <<>>
                 /\ pending # <<>> => store'.write_cache[t] = <<>>
                 /\ \A u \in ContainerTypes \ {t} :
                      store'.write_cache[u] = store.write_cache[u]
     /\ (last'.op = "Close" /\ last'.exc = NoExc)
          => \A t \in ContainerTypes :
               /\ store'.write_cache[t] = <<>>
               /\ file'.db.containers[t].rows = AllRows(store, t)]_vars

\* A count of the tags flushed the pending tag and left an event pending.
FlushedOneOfTwoBuffers ==
  /\ last.op = "GetNumber"
  /\ last.ctype = "tag"
  /\ last.inserted > 0
  /\ store.write_cache["tag"] = <<>>
  /\ BufferedRows(store, "event") # <<>>

\* C30: GetAttributeContainers flushes the pending rows of the type and
\* runs the query when it is called: the call leaves no row of the type
\* pending, and the first next() that follows a write of a container of the
\* type, made after the call, does not have that container among the rows
\* of its query.
IterationFixedAtCall ==
  [][/\ last'.op = "GetAttributeContainers"
          => BufferedRows(store', last'.ctype) = <<>>
     /\ (gen.state = "created" /\ last.op = "Add" /\ last.exc = NoExc
          /\ last.ctype = gen.ctype /\ last'.op = "Next")
          => last'.count < Len(AllRows(store, gen.ctype))]_vars

\* C31: a GetAttributeContainers with a filter expression PythonAST2SQL
\* raises on, or for a type with no declared schema, raises in the call and
\* leaves the store (its tables, write-back buffers, read cache and sequence
\* counters), the file and the caller's generator as they were.
UntranslatedFilterFailsAtCall ==
  [][(last'.op = "GetAttributeContainers"
        /\ (GetSchema(last'.ctype) = <<>>
              \/ (ast_node' # NoNode /\ PythonAST2SQL(ast_node').raised)))
       => /\ last'.exc # NoExc
          /\ store' = store
          /\ file' = file
          /\ gen' = gen]_vars

\* A GetAttributeContainers over the events raised on its filter expression
\* while an event was pending and the caller was iterating.
FilterRefusedWithPendingRows ==
  /\ last.op = "GetAttributeContainers"
  /\ last.exc = "TypeError"
  /\ last.ctype = "event"
  /\ BufferedRows(store, "event") # <<>>
  /\ gen.state = "running"

\* C32: an Open read-only of the file that follows a CheckSupportedFormat
\* that returned True raises nothing: the stored format_version is a number
\* from READ_COMPATIBLE_FORMAT_VERSION to FORMAT_VERSION and the stored
\* serialization_format is json.
SupportedFormatOpensReadOnly ==
  [][(last.op = "CheckSupportedFormat" /\ last.exc = NoExc /\ last.count = 1
        /\ ~store.is_open
        /\ last'.op = "Open" /\ last'.exc # "MissingPath"
        /\ store'.read_only)
       => /\ last'.exc = NoExc
          /\ CheckStorageMetadata(file.db.metadata.rows, TRUE) = NoExc
          /\ store'.format_version \in
               READ_COMPATIBLE_FORMAT_VERSION..FORMAT_VERSION
          /\ store'.serialization_format = JSON]_vars

\* C33: CreateAttributeContainer and GetSchema of the container type of a
\* class that was registered, and not deregistered since, return an
\* instance of the class and its schema; RegisterAttributeContainer of a
\* class whose lower-cased type is a key of the dictionary, and
\* DeregisterAttributeContainer of a class that is not registered, raise
\* KeyError and leave the dictionary as it was.
RegisteredClassIsServed ==
  [][/\ manager_call'.op \in {"CreateAttributeContainer", "GetSchema"}
          => \A class \in registered :
               class.CONTAINER_TYPE = manager_call'.argument
                 => /\ manager_call'.exc = NoExc
                    /\ manager_call'.result =
                         IF manager_call'.op = "GetSchema" THEN class.SCHEMA
                         ELSE Instance(class)
     /\ (manager_call'.op = "RegisterAttributeContainer"
          /\ Lower(manager_call'.argument.CONTAINER_TYPE)
               \in DOMAIN attribute_container_classes)
          => /\ manager_call'.exc = "KeyError"
             /\ attribute_container_classes' = attribute_container_classes
     /\ (manager_call'.op = "DeregisterAttributeContainer"
          /\ manager_call'.argument \notin registered)
          => /\ manager_call'.exc = "KeyError"
             /\ attribute_container_classes' = attribute_container_classes
    ]_vars

\* C34: every list of the write-back buffer is the column names followed by
\* rows of values only.
WriteCacheBeginsWithColumnNames ==
  \A t \in ContainerTypes :
    LET write_cache == store.write_cache[t]
    IN  write_cache # <<>>
          => /\ write_cache[1].header
             /\ \A i \in 2..Len(write_cache) : ~write_cache[i].header

====
